---- MODULE Spec2Model ----
(***************************************************************************)
(* Model of the file-collection tools of the toolkit repository:           *)
(*   tools/mdscraper/mdscraper.py  should_ignore (gitignore-style filter)  *)
(*   tools/search/search.py        collections, config store, filtering,   *)
(*                                 extractor lookup, find_collections      *)
(* Text (paths, glob patterns) is a sequence of one-character strings, so  *)
(* that glob matching, basename, split and join are computed, not assumed. *)
(***************************************************************************)
EXTENDS Integers, Sequences, FiniteSets, TLC

(***************************************************************************)
(* Bounds of the model.                                                    *)
(***************************************************************************)
\* longest path handed to should_ignore, in characters
MaxPathLen == 4
\* longest pattern list handed to should_ignore
MaxPatterns == 2
\* longest file name handed to get_extractor, in characters
MaxNameLen == 3
\* most entries of an extractor map handed to get_extractor
MaxExtractors == 3
\* most directories, besides the root, of a tree handed to find_collections
MaxDirs == 3
\* most files of a tree handed to filter_files
MaxFiles == 2
\* most commands run in one behaviour of the collection store
MaxOps == 2

MaxHits == 2

MaxLimit == 2
\* most schedule commands run in one behaviour
MaxTimerOps == 2
\* most lines of a markdown text handed to fix_markdown_formatting
MaxMdLines == 3
\* most messages of the mailbox that sync_emails reads
MaxMessages == 2
\* most runs of sync_emails in one behaviour
MaxSyncs == 3

VARIABLES
    ig_path,        \* should_ignore: argument path
    ig_patterns,    \* should_ignore: argument patterns
    ig_result,      \* should_ignore: returned value
    ig_pc,          \* "call" before the call, "done" after it
    ex_filename,    \* get_extractor: argument filename
    ex_config,      \* get_extractor: argument config (a dict)
    ex_result,      \* get_extractor: returned value, None or a command
    ex_pc,          \* "call" before the call, "done" after it
    fs,             \* the file system: its directories and its files
    fd_start,       \* find_collections: argument start_dir
    fd_result,      \* find_collections: the returned list
    fd_pc,          \* "call" before the call, "done" after it
    fl_dir,         \* filter_files: argument collection_dir
    fl_config,      \* filter_files: argument config (a dict)
    fl_result,      \* filter_files: the returned list
    fl_pc,          \* "call" before the call, "done" after it
    DEFAULT_CONFIG, \* search.py's module-level default configuration dict
    TANTIVY_AVAILABLE, \* whether "import tantivy" succeeded
    st_op,          \* the command that ran last: "init", "scan", "index", "query"
    st_args,        \* its arguments
    st_dir,         \* the directory it resolved its argument to
    st_rc,          \* its return code
    st_out,         \* what it reported: the collections it listed or used
    st_ops,         \* how many commands have run
    sc_patterns,    \* scan_directory: argument patterns
    sc_recursive,   \* scan_directory: argument recursive
    sc_result,      \* scan_directory: the returned list
    sc_pc,          \* "call" before the call, "done" after it
    sr_collections, \* perform_search: the collections and what their indexes hold
    sr_tag,         \* perform_search: argument tag_filter
    sr_limit,       \* perform_search: argument limit
    sr_result,      \* perform_search: the returned list
    sr_err,         \* perform_search: what it wrote to stderr
    sr_pc,          \* "call" before the call, "done" after it
    tm_dir,         \* schedule: whether ~/.config/systemd/user exists
    tm_files,       \* schedule: the unit files there, as <<name, suffix>>
    tm_cmd,         \* schedule: the subcommand being run, "add" or "remove"
    tm_args,        \* schedule: its arguments
    tm_before,      \* schedule: the unit files when it started
    tm_pc,          \* schedule: where the subcommand is
    tm_trace,       \* schedule: its file writes, deletions and commands so far
    tm_rc,          \* schedule: the exit status of the process, None while it runs
    tm_ops,         \* schedule: how many subcommands have been started
    md_text,        \* fix_markdown_formatting: argument markdown_text
    md_result,      \* fix_markdown_formatting: the returned text
    md_pc,          \* "call" before the call, "done" after it
    ml_mailbox,     \* sync_emails: the messages of the folder, in the server's order
    ml_files,       \* sync_emails: the files of the folder's directory, name to content
    ml_before,      \* sync_emails: the files when the last run started
    ml_written,     \* sync_emails: the messages the last run wrote a file for
    ml_synced,      \* sync_emails: the last run's count of new messages
    ml_skipped,     \* sync_emails: the last run's count of messages already there
    ml_runs         \* sync_emails: how many runs have ended

ignoreVars == <<ig_path, ig_patterns, ig_result, ig_pc>>

extractorVars == <<ex_filename, ex_config, ex_result, ex_pc>>

findVars == <<fd_start, fd_result, fd_pc>>

filterVars == <<fl_dir, fl_config, fl_result, fl_pc>>

storeVars == <<DEFAULT_CONFIG, TANTIVY_AVAILABLE, st_op, st_args, st_dir, st_rc, st_out, st_ops>>

scanVars == <<sc_patterns, sc_recursive, sc_result, sc_pc>>

searchVars == <<sr_collections, sr_tag, sr_limit, sr_result, sr_err, sr_pc>>

timerVars == <<tm_dir, tm_files, tm_cmd, tm_args, tm_before, tm_pc, tm_trace, tm_rc,
               tm_ops>>

\* the variables of search.py and mdscraper.py
collectionVars == <<ignoreVars, extractorVars, fs, findVars, filterVars, storeVars,
                    scanVars, searchVars>>

markdownVars == <<md_text, md_result, md_pc>>

mailVars == <<ml_mailbox, ml_files, ml_before, ml_written, ml_synced, ml_skipped, ml_runs>>

\* the variables of the other tools
toolVars == <<timerVars, markdownVars, mailVars>>

\* all variables but those of schedule.py
timerRest == <<collectionVars, markdownVars, mailVars>>

\* all variables but those of docx2md.py
markdownRest == <<collectionVars, timerVars, mailVars>>

\* all variables but those of protonmail.py
mailRest == <<collectionVars, timerVars, markdownVars>>

vars == <<collectionVars, toolVars>>

(***************************************************************************)
(* Python values.  None is the empty tuple and a present value v is <<v>>. *)
(* A dict is the sequence of its <<key, value>> items in insertion order,  *)
(* with no key twice.                                                      *)
(***************************************************************************)
None == <<>>

Some(v) == <<v>>

\* key in d
Has(d, k) == \E i \in DOMAIN d : d[i][1] = k

\* d.get(k, default)
Get(d, k, default) ==
    IF Has(d, k) THEN d[CHOOSE i \in DOMAIN d : d[i][1] = k][2] ELSE default

\* d[k] = v: an existing key keeps its place, a new key goes last
Put(d, k, v) ==
    IF Has(d, k)
    THEN [i \in DOMAIN d |-> IF d[i][1] = k THEN <<k, v>> ELSE d[i]]
    ELSE Append(d, <<k, v>>)

\* the sequences that are dicts: no key twice
IsDict(d) == \A i, j \in DOMAIN d : d[i][1] = d[j][1] => i = j

(***************************************************************************)
(* Texts of search.py.  Every text, a dict key included, is a sequence of  *)
(* one-character strings.                                                  *)
(***************************************************************************)
K_name == <<"n", "a", "m", "e">>

K_include == <<"i", "n", "c", "l", "u", "d", "e">>

K_exclude == <<"e", "x", "c", "l", "u", "d", "e">>

K_patterns == <<"p", "a", "t", "t", "e", "r", "n", "s">>

K_extractors == <<"e", "x", "t", "r", "a", "c", "t", "o", "r", "s">>

K_output == <<"o", "u", "t", "p", "u", "t">>

K_format == <<"f", "o", "r", "m", "a", "t">>

K_directory == <<"d", "i", "r", "e", "c", "t", "o", "r", "y">>

(***************************************************************************)
(* Text helpers.                                                           *)
(***************************************************************************)
\* all sequences over S of length 0..n
SeqsUpTo(S, n) == UNION {[1..k -> S] : k \in 0..n}

\* s[i:] of Python (i counted from 0)
DropFirst(s, i) == SubSeq(s, i + 1, Len(s))

\* str.startswith
startswith(s, prefix) ==
    /\ Len(prefix) <= Len(s)
    /\ SubSeq(s, 1, Len(prefix)) = prefix

\* str.endswith
endswith(s, suffix) ==
    /\ Len(suffix) <= Len(s)
    /\ SubSeq(s, Len(s) - Len(suffix) + 1, Len(s)) = suffix

\* str.rfind('/') + 1: the position after the last '/', 0 when there is none
RfindSlashPlus1(p) ==
    LET S == {i \in 1..Len(p) : p[i] = "/"}
    IN  IF S = {} THEN 0 ELSE CHOOSE i \in S : \A j \in S : j <= i

\* os.path.basename (posixpath): p[p.rfind('/') + 1:]
basename(p) == DropFirst(p, RfindSlashPlus1(p))

\* str.find('/') + 1: the position of the first '/', 0 when there is none
FindSlashPlus1(p) ==
    LET S == {i \in 1..Len(p) : p[i] = "/"}
    IN  IF S = {} THEN 0 ELSE CHOOSE i \in S : \A j \in S : i <= j

\* str.split('/')
RECURSIVE split(_)
split(p) ==
    LET i == FindSlashPlus1(p)
    IN  IF i = 0 THEN <<p>>
        ELSE <<SubSeq(p, 1, i - 1)>> \o split(DropFirst(p, i))

\* '/'.join(parts)
RECURSIVE join(_)
join(parts) ==
    IF parts = <<>> THEN <<>>
    ELSE IF Len(parts) = 1 THEN parts[1]
    ELSE parts[1] \o <<"/">> \o join(Tail(parts))

\* fnmatch.fnmatch on POSIX (normcase is the identity): the pattern is turned
\* into a regular expression that must match the whole name; '*' is '.*' and
\* '?' is '.' (both also match '/' and a leading '.'), any other character
\* is itself.  Bracket expressions are outside the pattern alphabet used here.
RECURSIVE fnmatch(_, _)
fnmatch(name, pat) ==
    IF pat = <<>> THEN name = <<>>
    ELSE IF Head(pat) = "*"
         THEN \/ fnmatch(name, Tail(pat))
              \/ (name # <<>> /\ fnmatch(Tail(name), pat))
    ELSE IF Head(pat) = "?"
         THEN name # <<>> /\ fnmatch(Tail(name), Tail(pat))
    ELSE /\ name # <<>>
         /\ Head(name) = Head(pat)
         /\ fnmatch(Tail(name), Tail(pat))

(***************************************************************************)
(* mdscraper.should_ignore                                                 *)
(***************************************************************************)
\* mutant: tests the whole path, not its basename, for a leading '.'
IsHiddenWholePath(path) == startswith(path, <<".">>)

\* line 46: os.path.basename(path).startswith('.')
IsHidden(path) == startswith(basename(path), <<".">>)

\* lines 57-61: the inner loop over the negation patterns
RECURSIVE negation_overrides(_, _)
negation_overrides(path, patterns) ==
    IF patterns = <<>> THEN FALSE
    ELSE IF startswith(Head(patterns), <<"!">>)
            /\ fnmatch(path, DropFirst(Head(patterns), 1))
         THEN TRUE
    ELSE negation_overrides(path, Tail(patterns))

\* mutant: the directory patterns are applied to the first segment only
PartialPathFirstOnly(path_parts, i) == path_parts[1] \o <<"/">>

\* line 53: '/'.join(path_parts[:i+1]) + '/'   (i counted from 1 here)
PartialPath(path_parts, i) == join(SubSeq(path_parts, 1, i)) \o <<"/">>

\* mutant: a matching directory pattern excludes without asking the negations
DirPatternHitNoOverride(path, partial_path, pattern, patterns) ==
    /\ ~startswith(pattern, <<"!">>)
    /\ endswith(pattern, <<"/">>)
    /\ fnmatch(partial_path, pattern)

\* lines 55-63: one pattern against one partial path; TRUE when control
\* reaches "return True"
DirPatternHit(path, partial_path, pattern, patterns) ==
    /\ ~startswith(pattern, <<"!">>)
    /\ endswith(pattern, <<"/">>)
    /\ fnmatch(partial_path, pattern)
    /\ ~negation_overrides(path, patterns)

\* lines 54-63: the loop over the patterns for one partial path
RECURSIVE DirPatternLoop(_, _, _, _)
DirPatternLoop(path, partial_path, rest, patterns) ==
    IF rest = <<>> THEN FALSE
    ELSE \/ DirPatternHit(path, partial_path, Head(rest), patterns)
         \/ DirPatternLoop(path, partial_path, Tail(rest), patterns)

\* lines 50-63: the loop over the partial paths; TRUE when "return True"
RECURSIVE DirPartsLoop(_, _, _, _)
DirPartsLoop(path, path_parts, i, patterns) ==
    IF i > Len(path_parts) THEN FALSE
    ELSE \/ DirPatternLoop(path, PartialPath(path_parts, i), patterns, patterns)
         \/ DirPartsLoop(path, path_parts, i + 1, patterns)

DirectoryRule(path, patterns) ==
    /\ \E k \in 1..Len(path) : path[k] = "/"
    /\ DirPartsLoop(path, split(path), 1, patterns)

\* lines 66-70: TRUE when the loop reaches "return False"
RECURSIVE NegationLoop(_, _)
NegationLoop(path, patterns) ==
    IF patterns = <<>> THEN FALSE
    ELSE IF startswith(Head(patterns), <<"!">>)
            /\ fnmatch(path, DropFirst(Head(patterns), 1))
         THEN TRUE
    ELSE NegationLoop(path, Tail(patterns))

\* mutant: a plain pattern is matched against the basename, not the path
PlainPatternHitBasename(path, pattern) ==
    /\ ~startswith(pattern, <<"!">>)
    /\ ~endswith(pattern, <<"/">>)
    /\ fnmatch(basename(path), pattern)

\* lines 74-75
PlainPatternHit(path, pattern) ==
    /\ ~startswith(pattern, <<"!">>)
    /\ ~endswith(pattern, <<"/">>)
    /\ fnmatch(path, pattern)

\* lines 73-76: TRUE when the loop reaches "return True"
RECURSIVE PlainLoop(_, _)
PlainLoop(path, patterns) ==
    IF patterns = <<>> THEN FALSE
    ELSE \/ PlainPatternHit(path, Head(patterns))
         \/ PlainLoop(path, Tail(patterns))

\* lines 43-79
should_ignore(path, patterns) ==
    IF IsHidden(path) THEN TRUE
    ELSE IF DirectoryRule(path, patterns) THEN TRUE
    ELSE IF NegationLoop(path, patterns) THEN FALSE
    ELSE IF PlainLoop(path, patterns) THEN TRUE
    ELSE FALSE

(***************************************************************************)
(* Inputs of should_ignore: every path over the path alphabet, and pattern *)
(* lists over a pattern set holding plain, directory and negation patterns *)
(* (the lines parse_ignore_file keeps: stripped, non-empty, not comments). *)
(***************************************************************************)
PathChars == {"a", ".", "/"}

IgnorePaths == SeqsUpTo(PathChars, MaxPathLen)

IgnorePatternSet ==
    { <<"a">>, <<"*">>, <<"?">>, <<"a", "/", "a">>,
      <<"a", "/">>, <<"*", "/">>, <<"a", "/", "a", "/">>,
      <<"!", "a">>, <<"!", "*">>, <<"!", "a", "/", "a">>,
      <<"!", "a", "/", "*">>, <<"!", ".", "a">> }

IgnorePatternLists == SeqsUpTo(IgnorePatternSet, MaxPatterns)

IgnoreInit ==
    /\ ig_path \in IgnorePaths
    /\ ig_patterns \in IgnorePatternLists
    /\ ig_result = FALSE
    /\ ig_pc = "call"

\* the should_ignore variables while another component is exercised
IgnoreIdle ==
    /\ ig_path = <<>>
    /\ ig_patterns = <<>>
    /\ ig_result = FALSE
    /\ ig_pc = "idle"

\* one call of should_ignore(ig_path, ig_patterns)
CallShouldIgnore ==
    /\ ig_pc = "call"
    /\ ig_result' = should_ignore(ig_path, ig_patterns)
    /\ ig_pc' = "done"
    /\ UNCHANGED <<ig_path, ig_patterns>>
    /\ UNCHANGED <<extractorVars, fs, findVars, filterVars, storeVars, scanVars, searchVars>>
    /\ UNCHANGED toolVars

(***************************************************************************)
(* search.get_extractor                                                    *)
(***************************************************************************)
\* mutant: the loop keeps going and the last matching pattern wins
RECURSIVE ExtractorLoopLastMatch(_, _)
ExtractorLoopLastMatch(filename, items) ==
    IF items = <<>> THEN None
    ELSE LET later == ExtractorLoopLastMatch(filename, Tail(items))
         IN  IF later # None THEN later
             ELSE IF fnmatch(filename, Head(items)[1]) THEN Some(Head(items)[2])
             ELSE None

\* lines 186-190: the items in insertion order, return at the first match
RECURSIVE ExtractorLoop(_, _)
ExtractorLoop(filename, items) ==
    IF items = <<>> THEN None
    ELSE IF fnmatch(filename, Head(items)[1]) THEN Some(Head(items)[2])
    ELSE ExtractorLoop(filename, Tail(items))

\* lines 182-190
get_extractor(filename, config) ==
    ExtractorLoop(filename, Get(config, K_extractors, <<>>))

NameChars == {"a", ".", "p"}

ExtractorFilenames == SeqsUpTo(NameChars, MaxNameLen)

\* overlapping globs, so that several entries can match one file name
ExtractorPatternSet ==
    { <<"*", ".", "p">>, <<"*">>, <<"a", "*">>, <<"*", ".", "a">>,
      <<"a", ".", "p">> }

PDF_EXTRACTOR == <<"p", "d", "f", "-", "e", "x", "t", "r", "a", "c", "t", "o", "r", " ", "{", "i", "n", "p", "u", "t", "}">>

TEXT_EXTRACTOR == <<"t", "e", "x", "t", "-", "e", "x", "t", "r", "a", "c", "t", "o", "r", " ", "{", "i", "n", "p", "u", "t", "}">>

DOCX_EXTRACTOR == <<"d", "o", "c", "x", "-", "e", "x", "t", "r", "a", "c", "t", "o", "r", " ", "{", "i", "n", "p", "u", "t", "}">>

ExtractorCommands == {PDF_EXTRACTOR, TEXT_EXTRACTOR}

ExtractorMaps ==
    {m \in SeqsUpTo(ExtractorPatternSet \X ExtractorCommands, MaxExtractors) :
        IsDict(m)}

\* a config with an extractor map, or without the key
ExtractorConfigs ==
    {<< <<K_name, <<"X">> >>, <<K_extractors, m>> >> : m \in ExtractorMaps}
        \cup {<< <<K_name, <<"X">> >> >>}

ExtractorInit ==
    /\ ex_filename \in ExtractorFilenames
    /\ ex_config \in ExtractorConfigs
    /\ ex_result = None
    /\ ex_pc = "call"

\* the get_extractor variables while another component is exercised
ExtractorIdle ==
    /\ ex_filename = <<>>
    /\ ex_config = <<>>
    /\ ex_result = None
    /\ ex_pc = "idle"

\* one call of get_extractor(ex_filename, ex_config)
CallGetExtractor ==
    /\ ex_pc = "call"
    /\ ex_result' = get_extractor(ex_filename, ex_config)
    /\ ex_pc' = "done"
    /\ UNCHANGED <<ex_filename, ex_config>>
    /\ UNCHANGED <<ignoreVars, fs, findVars, filterVars, storeVars, scanVars, searchVars>>
    /\ UNCHANGED toolVars

(***************************************************************************)
(* The file system.  A path is the sequence of its components below "/",   *)
(* each component a text; fs.dirs is the set of directories and fs.files   *)
(* maps each file to its content.                                          *)
(***************************************************************************)
\* search.py line 70
SEARCH_DIR == <<".", "s", "e", "a", "r", "c", "h">>

\* the file name of CONFIG_FILE, search.py line 71
CONFIG_NAME == <<"c", "o", "n", "f", "i", "g", ".", "t", "o", "m", "l">>

\* the directory names of CACHE_DIR and INDEX_DIR, search.py lines 72-73
CACHE_NAME == <<"c", "a", "c", "h", "e">>

INDEX_NAME == <<"i", "n", "d", "e", "x">>

EmptyFiles == [p \in {} |-> <<>>]

IsDir(f, p) == p \in f.dirs

IsFile(f, p) == p \in DOMAIN f.files

\* os.path.exists, Path.exists
Exists(f, p) == IsDir(f, p) \/ IsFile(f, p)

\* p is d or lies below d
AtOrBelow(p, d) == Len(d) <= Len(p) /\ SubSeq(p, 1, Len(d)) = d

\* the names a directory listing can hold, in the order listings are read
ListingOrder ==
    << SEARCH_DIR, CACHE_NAME, INDEX_NAME, CONFIG_NAME, <<"n">>, <<"m">>,
       <<"o", ".", "b">>, <<"a", ".", "m">>, <<"d", ".", "m">>,
       <<"a", ".", "b">>, <<"a", ".", "m", "d">>, <<"c", ".", "j">>,
       <<"m", "_", "c", ".", "j">> >>

\* the subdirectories of d, in listing order
RECURSIVE SubdirsFrom(_, _, _)
SubdirsFrom(f, d, i) ==
    IF i > Len(ListingOrder) THEN <<>>
    ELSE (IF IsDir(f, Append(d, ListingOrder[i]))
          THEN <<Append(d, ListingOrder[i])>> ELSE <<>>)
         \o SubdirsFrom(f, d, i + 1)

Subdirs(f, d) == SubdirsFrom(f, d, 1)

\* the names of the files of d, in listing order
RECURSIVE FileNamesFrom(_, _, _)
FileNamesFrom(f, d, i) ==
    IF i > Len(ListingOrder) THEN <<>>
    ELSE (IF IsFile(f, Append(d, ListingOrder[i]))
          THEN <<ListingOrder[i]>> ELSE <<>>)
         \o FileNamesFrom(f, d, i + 1)

FileNames(f, d) == FileNamesFrom(f, d, 1)

\* the last component of a path, the empty text for "/"
LastName(p) == IF p = <<>> THEN <<>> ELSE p[Len(p)]

\* all subsets of S with at most k elements
RECURSIVE SubsetsUpTo(_, _)
SubsetsUpTo(S, k) ==
    IF k = 0 THEN {{}}
    ELSE LET smaller == SubsetsUpTo(S, k - 1)
         IN  smaller \cup {t \cup {x} : t \in smaller, x \in S}

(***************************************************************************)
(* search.find_collections                                                 *)
(***************************************************************************)
\* mutant: the scan does not descend below a directory that is a collection
RECURSIVE RecursiveDirsPruned(_, _), RecursiveDirsPrunedOver(_, _)
RecursiveDirsPruned(f, d) ==
    IF Exists(f, d \o <<SEARCH_DIR, CONFIG_NAME>>) THEN <<d>>
    ELSE <<d>> \o RecursiveDirsPrunedOver(f, Subdirs(f, d))

RecursiveDirsPrunedOver(f, ds) ==
    IF ds = <<>> THEN <<>>
    ELSE RecursiveDirsPruned(f, Head(ds)) \o RecursiveDirsPrunedOver(f, Tail(ds))

\* line 103, the "**" of the glob: start_path itself and every directory
\* below it, each one once
RECURSIVE RecursiveDirs(_, _), RecursiveDirsOver(_, _)
RecursiveDirs(f, d) == <<d>> \o RecursiveDirsOver(f, Subdirs(f, d))

RecursiveDirsOver(f, ds) ==
    IF ds = <<>> THEN <<>>
    ELSE RecursiveDirs(f, Head(ds)) \o RecursiveDirsOver(f, Tail(ds))

\* lines 103-106: of the directories the glob visits, those holding an entry
\* named SEARCH_DIR (the glob's match) with a config.toml in it
RECURSIVE CollectionsAmong(_, _)
CollectionsAmong(f, ds) ==
    IF ds = <<>> THEN <<>>
    ELSE LET path == Append(Head(ds), SEARCH_DIR)
             config_file == Append(path, CONFIG_NAME)
         IN  (IF Exists(f, path) /\ Exists(f, config_file)
              THEN <<Head(ds)>> ELSE <<>>)
             \o CollectionsAmong(f, Tail(ds))

\* lines 98-108
find_collections(f, start_dir) ==
    CollectionsAmong(f, RecursiveDirs(f, start_dir))

\* the trees find_collections is tried on: directories named n and m nested
\* in any way, at most k besides the root
RECURSIVE PlainTrees(_)
PlainTrees(k) ==
    IF k = 0 THEN {{<<>>}}
    ELSE LET smaller == PlainTrees(k - 1)
         IN  smaller \cup
             UNION {{t \cup {Append(d, nm)} : d \in t, nm \in {<<"n">>, <<"m">>}}
                        : t \in smaller}

\* what a directory holds under the name SEARCH_DIR: nothing, a file, a
\* directory without config.toml, or a directory with it
SearchStates == {"none", "file", "dir", "collection"}

TreeFs(t, st) ==
    [dirs |-> t \cup {Append(d, SEARCH_DIR) : d \in {e \in t : st[e] \in {"dir", "collection"}}},
     files |->
        [p \in {Append(d, SEARCH_DIR) : d \in {e \in t : st[e] = "file"}}
             \cup {d \o <<SEARCH_DIR, CONFIG_NAME>> : d \in {e \in t : st[e] = "collection"}}
         |-> <<>>]]

FindTrees ==
    UNION {{TreeFs(t, st) : st \in [t -> SearchStates]} : t \in PlainTrees(MaxDirs)}

FindInit ==
    /\ fs \in FindTrees
    /\ fd_start \in fs.dirs
    /\ fd_result = <<>>
    /\ fd_pc = "call"

\* the find_collections variables while another component is exercised
FindIdle ==
    /\ fd_start = <<>>
    /\ fd_result = <<>>
    /\ fd_pc = "idle"

FsIdle == fs = [dirs |-> {<<>>}, files |-> EmptyFiles]

\* one call of find_collections(fd_start) on the file system fs
CallFindCollections ==
    /\ fd_pc = "call"
    /\ fd_result' = find_collections(fs, fd_start)
    /\ fd_pc' = "done"
    /\ UNCHANGED <<fd_start, fs>>
    /\ UNCHANGED <<ignoreVars, extractorVars, filterVars, storeVars, scanVars, searchVars>>
    /\ UNCHANGED toolVars

(***************************************************************************)
(* search.filter_files                                                     *)
(***************************************************************************)
\* line 139: config.get("include", {}).get("patterns", ["*"])
include_patterns(config) ==
    Get(Get(config, K_include, <<>>), K_patterns, << <<"*">> >>)

\* line 140: config.get("exclude", {}).get("patterns", [])
exclude_patterns(config) ==
    Get(Get(config, K_exclude, <<>>), K_patterns, <<>>)

\* lines 151-155: some exclude pattern matches the name of some directory
\* listed in root
skip_dir(f, root, config) ==
    \E i \in DOMAIN exclude_patterns(config) :
        \E j \in DOMAIN Subdirs(f, root) :
            fnmatch(LastName(Subdirs(f, root)[j]), exclude_patterns(config)[i])

\* lines 161-177 for one file of root: TRUE when file_path is appended
FileMatched(root, filename, config) ==
    LET file_path == Append(root, filename)
    IN  /\ ~\E k \in DOMAIN file_path : file_path[k] = SEARCH_DIR
        /\ \E i \in DOMAIN include_patterns(config) :
               fnmatch(filename, include_patterns(config)[i])
        /\ ~\E i \in DOMAIN exclude_patterns(config) :
               fnmatch(filename, exclude_patterns(config)[i])

\* lines 160-177: the loop over the files of root
RECURSIVE FilesLoop(_, _, _)
FilesLoop(root, files, config) ==
    IF files = <<>> THEN <<>>
    ELSE (IF FileMatched(root, Head(files), config)
          THEN <<Append(root, Head(files))>> ELSE <<>>)
         \o FilesLoop(root, Tail(files), config)

\* lines 146-177: one iteration of the os.walk loop
WalkStep(f, root, config) ==
    IF LastName(root) = SEARCH_DIR THEN <<>>
    ELSE IF skip_dir(f, root, config) THEN <<>>
    ELSE FilesLoop(root, FileNames(f, root), config)

\* lines 145-177: os.walk is top-down and prunes nothing here, so it visits
\* collection_dir and every directory below it
RECURSIVE WalkLoop(_, _, _)
WalkLoop(f, roots, config) ==
    IF roots = <<>> THEN <<>>
    ELSE WalkStep(f, Head(roots), config) \o WalkLoop(f, Tail(roots), config)

\* lines 137-179
filter_files(f, collection_dir, config) ==
    WalkLoop(f, RecursiveDirs(f, collection_dir), config)

\* the trees filter_files is tried on: a plain subdirectory, subdirectories
\* whose name ends in ".b", and the reserved directory with its cache
FilterDirTrees ==
    {t \in SUBSET { << <<"n">> >>, << <<"o", ".", "b">> >>,
                    << <<"n">>, <<"o", ".", "b">> >>,
                    << SEARCH_DIR >>, << SEARCH_DIR, CACHE_NAME >> } :
        \A d \in t : Len(d) = 1 \/ SubSeq(d, 1, Len(d) - 1) \in t}

FilterFileNames == { <<"a", ".", "m">>, <<"d", ".", "m">>, <<"a", ".", "b">> }

FilterFs(t, placed) ==
    [dirs |-> t \cup {<<>>}, files |-> [p \in placed |-> <<>>]]

FilterTrees ==
    UNION {{FilterFs(t, placed) :
                placed \in SubsetsUpTo({Append(d, nm) : d \in t \cup {<<>>},
                                                         nm \in FilterFileNames},
                                        MaxFiles)}
           : t \in FilterDirTrees}

FilterIncludeOptions ==
    { None, Some(<< <<"*", ".", "m">> >>),
      Some(<< <<"*", ".", "b">>, <<"*", ".", "m">> >>) }

FilterExcludeOptions ==
    { None, Some(<< <<"*", ".", "b">> >>),
      Some(<< <<"d", "*">>, <<"*", ".", "b">> >>) }

\* a config dict with or without its include and exclude tables
FilterConfig(inc, exc) ==
    << <<K_name, <<"X">> >> >>
    \o (IF inc = None THEN <<>> ELSE << <<K_include, << <<K_patterns, inc[1]>> >> >> >>)
    \o (IF exc = None THEN <<>> ELSE << <<K_exclude, << <<K_patterns, exc[1]>> >> >> >>)

FilterConfigs ==
    {FilterConfig(inc, exc) : inc \in FilterIncludeOptions,
                              exc \in FilterExcludeOptions}

FilterInit ==
    /\ fs \in FilterTrees
    /\ fl_dir \in {d \in fs.dirs : \A k \in DOMAIN d : d[k] # SEARCH_DIR}
    /\ fl_config \in FilterConfigs
    /\ fl_result = <<>>
    /\ fl_pc = "call"

\* the filter_files variables while another component is exercised
FilterIdle ==
    /\ fl_dir = <<>>
    /\ fl_config = <<>>
    /\ fl_result = <<>>
    /\ fl_pc = "idle"

\* one call of filter_files(fl_dir, fl_config) on the file system fs
CallFilterFiles ==
    /\ fl_pc = "call"
    /\ fl_result' = filter_files(fs, fl_dir, fl_config)
    /\ fl_pc' = "done"
    /\ UNCHANGED <<fl_dir, fl_config, fs>>
    /\ UNCHANGED <<ignoreVars, extractorVars, findVars, storeVars, scanVars, searchVars>>
    /\ UNCHANGED toolVars

(***************************************************************************)
(* The collection store of search.py: the default configuration, the TOML  *)
(* text of a config file, load_config, save_config and cmd_init.           *)
(***************************************************************************)
\* lines 76-81
DEFAULT_EXTRACTORS ==
    << <<<<"*", ".", "m", "d">>, TEXT_EXTRACTOR>>,
       <<<<"*", ".", "t", "x", "t">>, TEXT_EXTRACTOR>>,
       <<<<"*", ".", "p", "d", "f">>, PDF_EXTRACTOR>>,
       <<<<"*", ".", "d", "o", "c", "x">>, DOCX_EXTRACTOR>> >>

DEFAULT_NAME == <<"D", "e", "f", "a", "u", "l", "t", " ", "C", "o", "l", "l", "e", "c", "t", "i", "o", "n">>

DEFAULT_INCLUDE ==
    << <<"*", ".", "p", "d", "f">>, <<"*", ".", "m", "d">>,
       <<"*", ".", "t", "x", "t">>, <<"*", ".", "d", "o", "c", "x">> >>

DEFAULT_EXCLUDE ==
    << <<"*", "~">>, <<"*", ".", "b", "a", "k">>, <<"*", ".", "t", "m", "p">>,
       <<".", "g", "i", "t", "/", "*">>,
       <<".", "s", "e", "a", "r", "c", "h", "/", "*">> >>

\* lines 84-90: DEFAULT_CONFIG as the module is loaded
DefaultConfigLiteral ==
    << <<K_name, DEFAULT_NAME>>,
       <<K_include, << <<K_patterns, DEFAULT_INCLUDE>> >> >>,
       <<K_exclude, << <<K_patterns, DEFAULT_EXCLUDE>> >> >>,
       <<K_extractors, DEFAULT_EXTRACTORS>>,
       <<K_output, << <<K_format, <<"j", "s", "o", "n">>>>,
                      <<K_directory, <<"c", "a", "c", "h", "e">>>> >> >> >>

\* the keys of a config whose value is a dict (a TOML table)
TableKeys == {K_include, K_exclude, K_extractors, K_output}

\* Python truth of an optional argument: given, and not empty
Truthy(opt) == opt # None /\ opt[1] # <<>>

\* toml.dump, the values that are not dicts: one 'key = value' line each
RECURSIVE TomlScalarLines(_)
TomlScalarLines(items) ==
    IF items = <<>> THEN <<>>
    ELSE (IF Head(items)[1] \in TableKeys THEN <<>>
          ELSE << <<"kv", Head(items)[1], Head(items)[2]>> >>)
         \o TomlScalarLines(Tail(items))

\* the 'key = value' lines of one table
RECURSIVE TomlTableBody(_)
TomlTableBody(items) ==
    IF items = <<>> THEN <<>>
    ELSE << <<"kv", Head(items)[1], Head(items)[2]>> >> \o TomlTableBody(Tail(items))

\* toml.dump, the values that are dicts: a '[key]' line and the table's lines
RECURSIVE TomlTables(_)
TomlTables(items) ==
    IF items = <<>> THEN <<>>
    ELSE (IF Head(items)[1] \in TableKeys
          THEN << <<"table", Head(items)[1], <<>> >> >> \o TomlTableBody(Head(items)[2])
          ELSE <<>>)
         \o TomlTables(Tail(items))

\* mutant: the tables are written before the top-level values
toml_dump_tables_first(config) == TomlTables(config) \o TomlScalarLines(config)

\* line 130, toml.dump: the top-level values first, then one section per
\* table, each in the dict's order
toml_dump(config) == TomlScalarLines(config) \o TomlTables(config)

\* a text that toml.load parses: only 'key = value' and '[table]' lines
IsToml(lines) == \A i \in DOMAIN lines : lines[i][1] \in {"kv", "table"}

\* line 116, toml.load: a 'key = value' line belongs to the table whose
\* header was read last, to the top level before any header
RECURSIVE TomlLoadLines(_, _, _)
TomlLoadLines(lines, result, current) ==
    IF lines = <<>> THEN result
    ELSE LET line == Head(lines)
         IN  IF line[1] = "table"
             THEN TomlLoadLines(Tail(lines), Put(result, line[2], <<>>), Some(line[2]))
             ELSE IF current = None
             THEN TomlLoadLines(Tail(lines), Put(result, line[2], line[3]), None)
             ELSE TomlLoadLines(Tail(lines),
                      Put(result, current[1],
                          Put(Get(result, current[1], <<>>), line[2], line[3])),
                      current)

toml_load(lines) == TomlLoadLines(lines, <<>>, None)

\* os.path.join(collection_dir, CONFIG_FILE)
ConfigPath(dir) == dir \o <<SEARCH_DIR, CONFIG_NAME>>

\* lines 111-119: {} when the file is missing or is not TOML
load_config(f, collection_dir) ==
    IF ~IsFile(f, ConfigPath(collection_dir)) THEN <<>>
    ELSE IF ~IsToml(f.files[ConfigPath(collection_dir)]) THEN <<>>
    ELSE toml_load(f.files[ConfigPath(collection_dir)])

\* lines 93-95: mkdir(parents=True, exist_ok=True)
ensure_dir(f, path) ==
    [f EXCEPT !.dirs = @ \cup {SubSeq(path, 1, k) : k \in 0..Len(path)}]

\* open(path, "w") and a write of content: the file is created or replaced
WriteFile(f, path, content) ==
    [f EXCEPT !.files = [q \in (DOMAIN @) \cup {path} |->
                            IF q = path THEN content ELSE @[q]]]

\* lines 122-134: the file system after save_config (which returns True)
save_config(f, collection_dir, config) ==
    WriteFile(ensure_dir(f, Append(collection_dir, SEARCH_DIR)),
              ConfigPath(collection_dir), toml_dump(config))

\* str.strip on blanks
RECURSIVE lstrip(_)
lstrip(t) == IF t # <<>> /\ Head(t) = " " THEN lstrip(Tail(t)) ELSE t

RECURSIVE rstrip(_)
rstrip(t) ==
    IF t # <<>> /\ t[Len(t)] = " " THEN rstrip(SubSeq(t, 1, Len(t) - 1)) ELSE t

strip(t) == rstrip(lstrip(t))

\* the position of the first '=', 0 when there is none
FindEquals(t) ==
    LET S == {i \in 1..Len(t) : t[i] = "="}
    IN  IF S = {} THEN 0 ELSE CHOOSE i \in S : \A j \in S : i <= j

\* lines 498-500: one --extract string
ApplyOverride(extractors, extractor) ==
    LET i == FindEquals(extractor)
    IN  IF i = 0 THEN extractors
        ELSE Put(extractors, strip(SubSeq(extractor, 1, i - 1)),
                 strip(DropFirst(extractor, i)))

\* lines 497-500
RECURSIVE ApplyOverrides(_, _)
ApplyOverrides(extractors, extract) ==
    IF extract = <<>> THEN extractors
    ELSE ApplyOverrides(ApplyOverride(extractors, Head(extract)), Tail(extract))

\* mutant: the overrides start from an empty map
OverrideBaseEmpty(config) == <<>>

\* line 496: config["extractors"].copy()
OverrideBase(config) == Get(config, K_extractors, <<>>)

\* lines 485-486
ConfigWithName(config, name) ==
    IF Truthy(name) THEN Put(config, K_name, name[1]) ELSE config

\* lines 488-492: config["include"]["patterns"] = ..., the same for exclude
ConfigWithPatterns(config, key, patterns) ==
    IF Truthy(patterns)
    THEN Put(config, key, Put(Get(config, key, <<>>), K_patterns, patterns[1]))
    ELSE config

\* lines 495-501
ConfigWithExtractors(config, extract) ==
    IF Truthy(extract)
    THEN Put(config, K_extractors, ApplyOverrides(OverrideBase(config), extract[1]))
    ELSE config

\* lines 482-501: the config cmd_init writes, given the module's
\* DEFAULT_CONFIG as it is when the call starts
InitConfig(defaults, args) ==
    ConfigWithExtractors(
        ConfigWithPatterns(
            ConfigWithPatterns(ConfigWithName(defaults, args.name),
                               K_include, args.include),
            K_exclude, args.exclude),
        args.extract)

\* lines 482-492: DEFAULT_CONFIG.copy() is shallow, so the assignments to
\* config["include"]["patterns"] and config["exclude"]["patterns"] write into
\* the dicts DEFAULT_CONFIG holds; "name" and "extractors" are set on the copy
DefaultsAfterInit(defaults, args) ==
    ConfigWithPatterns(ConfigWithPatterns(defaults, K_include, args.include),
                       K_exclude, args.exclude)

\* mutant: an existing collection is overwritten without --force
InitRefusedNever(f, directory, args) == ~IsDir(f, directory)

\* lines 468-479: the checks that make cmd_init return 1
InitRefused(f, directory, args) ==
    \/ ~IsDir(f, directory)
    \/ (Exists(f, ConfigPath(directory)) /\ ~args.force)

\* lines 504-509: the file system after a cmd_init that is not refused
InitWrites(f, directory, config) ==
    save_config(
        ensure_dir(ensure_dir(ensure_dir(f, Append(directory, SEARCH_DIR)),
                              directory \o <<SEARCH_DIR, CACHE_NAME>>),
                   directory \o <<SEARCH_DIR, INDEX_NAME>>),
        directory, config)

\* the directories of the store's file system: /n, the nested /n/m, and /k,
\* which does not exist
DirN == << <<"n">> >>

DirNM == << <<"n">>, <<"m">> >>

DirK == << <<"k">> >>

\* --extract strings: an override of a default pattern, a new pattern,
\* blanks around both parts, a second '=', and no '=' at all
OverrideMd == <<"*", ".", "m", "d", "=", "c">>

OverrideJ == <<"*", ".", "j", "=", "x">>

OverrideMdBlanks == <<" ", "*", ".", "m", "d", " ", "=", " ", "c", " ", "d", " ">>

OverrideJTwoEquals == <<"*", ".", "j", "=", "a", "=", "b">>

OverrideNoEquals == <<"z", "z">>

ExtractOptions ==
    { <<OverrideMd>>, <<OverrideJ>>, <<OverrideNoEquals>>,
      <<OverrideMd, OverrideJ>>, <<OverrideMd, OverrideMdBlanks>>,
      <<OverrideMdBlanks, OverrideMd>>, <<OverrideJTwoEquals, OverrideNoEquals>> }

\* the option sets cmd_init is tried with: one option varied at a time, and
\* all of them given together
InitOptions ==
    [name : {None, Some(<<>>), Some(<<"X">>)}, include : {None}, exclude : {None},
     extract : {None}]
    \cup [name : {None}, include : {None, Some(<< <<"*", ".", "j">> >>)},
          exclude : {None, Some(<< <<"*", ".", "b">> >>)}, extract : {None}]
    \cup [name : {None}, include : {None}, exclude : {None},
          extract : {Some(e) : e \in ExtractOptions}]
    \cup [name : {Some(<<"X">>)}, include : {Some(<< <<"*", ".", "j">> >>)},
          exclude : {Some(<< <<"*", ".", "b">> >>)},
          extract : {Some(<<OverrideJ, OverrideMd>>)}]

InitArgs ==
    {[directory |-> d, name |-> o.name, include |-> o.include,
      exclude |-> o.exclude, extract |-> o.extract, force |-> fc]
        : d \in {None, Some(DirN), Some(DirK)}, o \in InitOptions, fc \in BOOLEAN}

\* the working directory of the process that runs cmd_init or cmd_index
InitCwds == {DirNM}

\* args.directory or os.getcwd()
ResolveDirectory(directory, cwd) ==
    IF Truthy(directory) THEN directory[1] ELSE cwd

\* lines 463-514: search init
cmd_init(args, cwd) ==
    LET directory == ResolveDirectory(args.directory, cwd)
    IN  /\ st_ops < MaxOps
        /\ st_op' = "init"
        /\ st_args' = args
        /\ st_dir' = directory
        /\ st_out' = <<>>
        /\ st_ops' = st_ops + 1
        /\ IF InitRefused(fs, directory, args)
           THEN /\ st_rc' = 1
                /\ UNCHANGED <<fs, DEFAULT_CONFIG>>
           ELSE /\ fs' = InitWrites(fs, directory, InitConfig(DEFAULT_CONFIG, args))
                /\ DEFAULT_CONFIG' = DefaultsAfterInit(DEFAULT_CONFIG, args)
                /\ st_rc' = 0
        /\ UNCHANGED TANTIVY_AVAILABLE
        /\ UNCHANGED <<ignoreVars, extractorVars, findVars, filterVars, scanVars, searchVars>>
        /\ UNCHANGED toolVars

CmdInit == \E args \in InitArgs : \E cwd \in InitCwds : cmd_init(args, cwd)

\* a new process: the module is loaded again and DEFAULT_CONFIG is the
\* literal of lines 84-90
NewProcess ==
    /\ DEFAULT_CONFIG # DefaultConfigLiteral
    /\ DEFAULT_CONFIG' = DefaultConfigLiteral
    /\ UNCHANGED <<fs, TANTIVY_AVAILABLE, st_op, st_args, st_dir, st_rc, st_out, st_ops>>
    /\ UNCHANGED <<ignoreVars, extractorVars, findVars, filterVars, scanVars, searchVars>>
    /\ UNCHANGED toolVars

\* a config file written by hand, as the tests do: only a name
HandWrittenConfig == << <<"kv", K_name, <<"R">> >> >>

\* a config file that is not TOML
GarbageConfig == << <<"garbage", <<>>, <<>> >> >>

\* the file system the store starts on: /n with two files and the nested
\* directory /n/m with two files (the relative paths m_c.j and m/c.j differ
\* only in the separator); /n/m may already hold a config file, or /n
\* or the root / may be a collection that "search init" has made there
StoreBaseFs ==
    [dirs |-> {<<>>, DirN, DirNM},
     files |-> [p \in {Append(DirN, <<"a", ".", "m", "d">>),
                       Append(DirN, <<"m", "_", "c", ".", "j">>),
                       Append(DirNM, <<"a", ".", "m", "d">>),
                       Append(DirNM, <<"c", ".", "j">>)} |-> <<>>]]

StoreInit ==
    /\ fs \in {StoreBaseFs}
            \cup {WriteFile(ensure_dir(StoreBaseFs, Append(DirNM, SEARCH_DIR)),
                             ConfigPath(DirNM), c)
                     : c \in {HandWrittenConfig, GarbageConfig}}
            \cup {InitWrites(StoreBaseFs, d, DefaultConfigLiteral) : d \in {<<>>, DirN}}
    /\ DEFAULT_CONFIG = DefaultConfigLiteral
    /\ TANTIVY_AVAILABLE \in BOOLEAN
    /\ st_op = "none"
    /\ st_args = <<>>
    /\ st_dir = <<>>
    /\ st_rc = 0
    /\ st_out = <<>>
    /\ st_ops = 0

\* the store variables while another component is exercised
StoreIdle ==
    /\ DEFAULT_CONFIG = DefaultConfigLiteral
    /\ TANTIVY_AVAILABLE = TRUE
    /\ st_op = "idle"
    /\ st_args = <<>>
    /\ st_dir = <<>>
    /\ st_rc = 0
    /\ st_out = <<>>
    /\ st_ops = 0

(***************************************************************************)
(* search scan, search index and search query.                             *)
(***************************************************************************)
K_title == <<"t", "i", "t", "l", "e">>

K_content == <<"c", "o", "n", "t", "e", "n", "t">>

\* config.get("name", "Unnamed collection"), line 534
UNNAMED == <<"U", "n", "n", "a", "m", "e", "d", " ", "c", "o", "l", "l", "e", "c", "t", "i", "o", "n">>

\* lines 525-535: what cmd_scan prints, one <<name, collection>> per line
RECURSIVE ScanLines(_, _)
ScanLines(f, collections) ==
    IF collections = <<>> THEN <<>>
    ELSE << <<Get(load_config(f, Head(collections)), K_name, UNNAMED),
              Head(collections)>> >>
         \o ScanLines(f, Tail(collections))

ScanArgs == {None, Some(DirN), Some(DirK)}

\* the working directories the commands are run from
Cwds == {DirN, DirNM}

\* lines 517-537: search scan
cmd_scan(directory_arg, cwd) ==
    LET directory == ResolveDirectory(directory_arg, cwd)
    IN  /\ st_ops < MaxOps
        /\ st_op' = "scan"
        /\ st_args' = [directory |-> directory_arg]
        /\ st_dir' = directory
        /\ st_ops' = st_ops + 1
        /\ IF ~IsDir(fs, directory)
           THEN st_rc' = 1 /\ st_out' = <<>>
           ELSE /\ st_rc' = 0
                /\ st_out' = ScanLines(fs, find_collections(fs, directory))
        /\ UNCHANGED <<fs, DEFAULT_CONFIG, TANTIVY_AVAILABLE>>
        /\ UNCHANGED <<ignoreVars, extractorVars, findVars, filterVars, scanVars, searchVars>>
        /\ UNCHANGED toolVars

CmdScan == \E d \in ScanArgs : \E cwd \in Cwds : cmd_scan(d, cwd)

\* a JSON object an extractor prints
JsonMetadata == << <<K_title, <<"T">> >>, <<K_content, <<"w">> >> >>

\* what the run of an extractor command gives: its exit status, its stdout,
\* and what json.loads makes of the stdout (None when it is not JSON).  In
\* order: a non-zero exit, a JSON object, the empty JSON object, text that
\* is not JSON, and no output at all.
ExtractorRuns ==
    { [exit |-> 1, stdout |-> <<>>, json |-> None],
      [exit |-> 0, stdout |-> <<"{", "T", "w", "}">>, json |-> Some(JsonMetadata)],
      [exit |-> 0, stdout |-> <<"{", "}">>, json |-> Some(<<>>)],
      [exit |-> 0, stdout |-> <<"o">>, json |-> None],
      [exit |-> 0, stdout |-> <<>>, json |-> None] }

\* what the external index can do with a document: store it, or raise
IndexOutcomes == {"ok", "raise"}

\* mutant: stdout that is not JSON gives the empty record
extract_metadata_no_fallback(file_path, run) ==
    IF run.exit # 0 THEN <<>>
    ELSE IF run.json # None THEN run.json[1]
    ELSE <<>>

\* lines 193-213: the record extract_metadata returns
extract_metadata(file_path, run) ==
    IF run.exit # 0 THEN <<>>
    ELSE IF run.json # None THEN run.json[1]
    ELSE << <<K_title, LastName(file_path)>>, <<K_content, run.stdout>> >>

\* os.path.relpath(file_path, collection_dir) for a file below it
RelPath(file_path, collection_dir) == DropFirst(file_path, Len(collection_dir))

\* line 229: re.sub(r"[/\\]", "_", rel_path)
RECURSIVE JoinUnderscore(_)
JoinUnderscore(parts) ==
    IF parts = <<>> THEN <<>>
    ELSE IF Len(parts) = 1 THEN parts[1]
    ELSE parts[1] \o <<"_">> \o JoinUnderscore(Tail(parts))

\* line 232: the name of the cache file
CacheFileName(rel_path) == JoinUnderscore(rel_path) \o <<".", "j", "s", "o", "n">>

CacheDir(collection_dir) == collection_dir \o <<SEARCH_DIR, CACHE_NAME>>

IndexDir(collection_dir) == collection_dir \o <<SEARCH_DIR, INDEX_NAME>>

\* the file whose presence says that an index exists, line 275
META_NAME == <<"m", "e", "t", "a", ".", "j", "s", "o", "n">>

SCHEMA_INFO_NAME == <<"s", "c", "h", "e", "m", "a", "_", "i", "n", "f", "o", ".", "j", "s", "o", "n">>

MetaPath(collection_dir) == Append(IndexDir(collection_dir), META_NAME)

\* lines 216-239: the file system after save_cache
save_cache(f, collection_dir, file_path, metadata) ==
    WriteFile(ensure_dir(f, CacheDir(collection_dir)),
              Append(CacheDir(collection_dir),
                     CacheFileName(RelPath(file_path, collection_dir))),
              metadata)

\* the documents of a collection's index; the external index keeps them in
\* its own storage, modelled as the content of meta.json
IndexDocs(f, collection_dir) ==
    IF IsFile(f, MetaPath(collection_dir)) THEN f.files[MetaPath(collection_dir)]
    ELSE <<>>

\* lines 263-308: get_or_create_index, up to the point the index is opened
\* or created; schema_info.json is written when no index exists yet
IndexPrepared(f, collection_dir) ==
    LET g == ensure_dir(f, IndexDir(collection_dir))
    IN  IF IsFile(g, MetaPath(collection_dir)) THEN g
        ELSE WriteFile(g, Append(IndexDir(collection_dir), SCHEMA_INFO_NAME), <<>>)

\* mutant: the new document takes the place of the documents with its path
IndexAddedReplacing(f, collection_dir, file_path, metadata) ==
    WriteFile(IndexPrepared(f, collection_dir), MetaPath(collection_dir),
              Append(SelectSeq(IndexDocs(f, collection_dir),
                               LAMBDA d : d[1] # RelPath(file_path, collection_dir)),
                     <<RelPath(file_path, collection_dir), metadata>>))

\* lines 311-368 when nothing raises: one document is added and committed
IndexAdded(f, collection_dir, file_path, metadata) ==
    WriteFile(IndexPrepared(f, collection_dir), MetaPath(collection_dir),
              Append(IndexDocs(f, collection_dir),
                     <<RelPath(file_path, collection_dir), metadata>>))

\* mutant: a file whose extraction fails ends the collection's loop
FilesAfterFailureNone(files) == <<>>

\* line 606, continue: after a failed extraction the loop goes on with the
\* files that are left
FilesAfterFailure(files) == files

\* mutant: a file without an extractor is counted as failed
AccAfterNoExtractorFailed(acc, collection_dir, file_path) ==
    [acc EXCEPT !.failed = @ + 1,
                !.noext = Append(@, <<collection_dir, file_path>>)]

\* lines 588-591, continue: a file without an extractor is passed over;
\* noext lists these files ("Skipping ...: No extractor found")
AccAfterNoExtractor(acc, collection_dir, file_path) ==
    [acc EXCEPT !.noext = Append(@, <<collection_dir, file_path>>)]

\* lines 582-619: the loop over the matched files of one collection.  acc
\* holds the file system, the two counters, whether the process has exited
\* (check_tantivy, line 66) and a log with one entry for each file an
\* extractor was run on; the result is the set of the states the loop can
\* end in, one for each way the extractors and the index behave.
RECURSIVE IndexFilesLoop(_, _, _, _, _)
IndexFilesLoop(acc, collection_dir, config, files, no_cache) ==
    IF files = <<>> \/ acc.exited THEN {acc}
    ELSE
    LET file_path == Head(files)
        extractor == get_extractor(LastName(file_path), config)
        Rest(a) == IndexFilesLoop(a, collection_dir, config, Tail(files), no_cache)
        Cached(metadata) ==
            IF no_cache THEN acc.fs
            ELSE save_cache(acc.fs, collection_dir, file_path, metadata)
        Entry(run, metadata, outcome) ==
            [collection |-> collection_dir, file |-> file_path, run |-> run,
             metadata |-> metadata, index |-> outcome]
        After(run, io) ==
            LET metadata == extract_metadata(file_path, run)
            IN  IF metadata = <<>>
                THEN IndexFilesLoop(
                         [acc EXCEPT !.failed = @ + 1,
                                     !.log = Append(@, Entry(run, metadata, "none"))],
                         collection_dir, config, FilesAfterFailure(Tail(files)),
                         no_cache)
                ELSE IF ~TANTIVY_AVAILABLE
                THEN Rest([acc EXCEPT !.fs = Cached(metadata), !.exited = TRUE,
                                      !.log = Append(@, Entry(run, metadata, "exit"))])
                ELSE IF io = "ok"
                THEN Rest([acc EXCEPT !.fs = IndexAdded(Cached(metadata), collection_dir,
                                                        file_path, metadata),
                                      !.indexed = @ + 1,
                                      !.log = Append(@, Entry(run, metadata, "ok"))])
                ELSE Rest([acc EXCEPT !.fs = IndexPrepared(Cached(metadata),
                                                           collection_dir),
                                      !.failed = @ + 1,
                                      !.log = Append(@, Entry(run, metadata, "raise"))])
    IN  IF extractor = None \/ extractor = Some(<<>>)
        THEN Rest(AccAfterNoExtractor(acc, collection_dir, file_path))
        ELSE UNION {After(run, io) : run \in ExtractorRuns, io \in IndexOutcomes}

\* mutant: a collection without a usable config ends the run
CollectionsAfterSkipNone(collections) == <<>>

\* line 573, continue: after a skipped collection the loop goes on with the
\* collections that are left
CollectionsAfterSkip(collections) == collections

\* lines 567-619: the loop over the collections
RECURSIVE IndexCollectionsLoop(_, _, _)
IndexCollectionsLoop(acc, collections, no_cache) ==
    IF collections = <<>> \/ acc.exited THEN {acc}
    ELSE
    LET collection_dir == Head(collections)
        config == load_config(acc.fs, collection_dir)
    IN  IF config = <<>>
        THEN IndexCollectionsLoop([acc EXCEPT !.skipped = Append(@, collection_dir)],
                                  CollectionsAfterSkip(Tail(collections)), no_cache)
        ELSE UNION {IndexCollectionsLoop(a, Tail(collections), no_cache) :
                      a \in IndexFilesLoop(acc, collection_dir, config,
                                           filter_files(acc.fs, collection_dir, config),
                                           no_cache)}

\* lines 548-556: the collections of the given directories
RECURSIVE IndexTargets(_, _)
IndexTargets(f, directories) ==
    IF directories = <<>> THEN <<>>
    ELSE (IF Exists(f, ConfigPath(Head(directories)))
          THEN <<Head(directories)>>
          ELSE find_collections(f, Head(directories)))
         \o IndexTargets(f, Tail(directories))

IndexArgs ==
    [directories : {<<>>, <<DirN>>, <<DirNM, DirN>>, <<DirK>>},
     no_cache : BOOLEAN]

\* mutant: failed files do not change the return code
IndexReturnCodeIgnoresFailures(end) == IF end.exited THEN 1 ELSE 0

\* line 627, and line 66 when check_tantivy ended the process
IndexReturnCode(end) ==
    IF end.exited THEN 1
    ELSE IF end.failed = 0 THEN 0 ELSE 1

\* lines 540-627: search index
cmd_index(args, cwd) ==
    LET directories == IF args.directories # <<>> THEN args.directories ELSE <<cwd>>
        collections == IndexTargets(fs, directories)
        start == [fs |-> fs, indexed |-> 0, failed |-> 0, exited |-> FALSE,
                  skipped |-> <<>>, log |-> <<>>, noext |-> <<>>]
    IN  /\ st_ops < MaxOps
        /\ st_op' = "index"
        /\ st_args' = args
        /\ st_dir' = cwd
        /\ st_ops' = st_ops + 1
        /\ IF collections = <<>>
           THEN /\ st_rc' = 1
                /\ st_out' = [collections |-> <<>>, indexed |-> 0, failed |-> 0,
                               exited |-> FALSE, skipped |-> <<>>, log |-> <<>>,
                               noext |-> <<>>]
                /\ fs' = fs
           ELSE \E end \in IndexCollectionsLoop(start, collections, args.no_cache) :
                /\ fs' = end.fs
                /\ st_out' = [collections |-> collections, indexed |-> end.indexed,
                               failed |-> end.failed, exited |-> end.exited,
                               skipped |-> end.skipped, log |-> end.log,
                               noext |-> end.noext]
                /\ st_rc' = IndexReturnCode(end)
        /\ UNCHANGED <<DEFAULT_CONFIG, TANTIVY_AVAILABLE>>
        /\ UNCHANGED <<ignoreVars, extractorVars, findVars, filterVars, scanVars, searchVars>>
        /\ UNCHANGED toolVars

CmdIndex == \E args \in IndexArgs : \E cwd \in InitCwds : cmd_index(args, cwd)

\* lines 646-651: the walk from the working directory upward; "/" itself is
\* not looked at
RECURSIVE EnclosingCollection(_, _)
EnclosingCollection(f, dir_path) ==
    IF dir_path = <<>> THEN <<>>
    ELSE IF Exists(f, ConfigPath(dir_path)) THEN <<dir_path>>
    ELSE EnclosingCollection(f, SubSeq(dir_path, 1, Len(dir_path) - 1))

\* lines 384-389: the collections perform_search opens, those with an index
RECURSIVE SearchedCollections(_, _)
SearchedCollections(f, collections) ==
    IF collections = <<>> THEN <<>>
    ELSE (IF IsDir(f, IndexDir(Head(collections)))
             /\ IsFile(f, MetaPath(Head(collections)))
          THEN <<Head(collections)>> ELSE <<>>)
         \o SearchedCollections(f, Tail(collections))

QueryArgs == {None, Some(DirN), Some(DirK)}

\* lines 630-700: search query; it reads the indexes and writes nothing
cmd_query(in_dir, cwd) ==
    LET collections ==
            IF Truthy(in_dir)
            THEN (IF Exists(fs, ConfigPath(in_dir[1])) THEN <<in_dir[1]>> ELSE <<>>)
            ELSE IF EnclosingCollection(fs, cwd) # <<>>
            THEN EnclosingCollection(fs, cwd)
            ELSE find_collections(fs, cwd)
    IN  /\ st_ops < MaxOps
        /\ st_op' = "query"
        /\ st_args' = [in_dir |-> in_dir]
        /\ st_dir' = cwd
        /\ st_ops' = st_ops + 1
        /\ IF ~TANTIVY_AVAILABLE \/ collections = <<>>
           THEN st_rc' = 1 /\ st_out' = [collections |-> <<>>, searched |-> <<>>]
           ELSE /\ st_rc' = 0
                /\ st_out' = [collections |-> collections,
                               searched |-> SearchedCollections(fs, collections)]
        /\ UNCHANGED <<fs, DEFAULT_CONFIG, TANTIVY_AVAILABLE>>
        /\ UNCHANGED <<ignoreVars, extractorVars, findVars, filterVars, scanVars, searchVars>>
        /\ UNCHANGED toolVars

CmdQuery == \E d \in QueryArgs : \E cwd \in Cwds : cmd_query(d, cwd)

(***************************************************************************)
(* mdscraper.py, lines 82-115: scan_directory(directory, patterns,         *)
(* recursive).  The directory scanned is the root of fs.                   *)
(***************************************************************************)
\* the content of a file that is not UTF-8 text: reading it raises
\* UnicodeDecodeError, lines 96-98
BINARY == <<"\\xff">>

\* line 84: os.listdir(directory), as full paths
ListDir(f, directory) ==
    {p \in f.dirs \cup DOMAIN f.files :
        Len(p) = Len(directory) + 1 /\ SubSeq(p, 1, Len(directory)) = directory}

\* lines 102-104: the directory's own name with '/' matches a directory
\* pattern that is not a negation
DirItemIgnored(name, patterns) ==
    \E i \in DOMAIN patterns :
        /\ ~startswith(patterns[i], <<"!">>)
        /\ endswith(patterns[i], <<"/">>)
        /\ fnmatch(name \o <<"/">>, patterns[i])

\* mutant: subdirectories are entered whatever the recursive argument is
RECURSIVE ScanFoundAlwaysRecursive(_, _, _, _)
ScanFoundAlwaysRecursive(f, directory, patterns, recursive) ==
    UNION { IF should_ignore(LastName(p), patterns) THEN {}
            ELSE IF IsFile(f, p)
            THEN (IF f.files[p] # BINARY THEN {p} ELSE {})
            ELSE IF ~DirItemIgnored(LastName(p), patterns)
            THEN ScanFoundAlwaysRecursive(f, p, patterns, recursive)
            ELSE {}
          : p \in ListDir(f, directory) }

\* lines 84-110, the files found, before the sort.  rel_path is the item's
\* path relative to the directory being listed, that is the item's name.
RECURSIVE ScanFound(_, _, _, _)
ScanFound(f, directory, patterns, recursive) ==
    UNION { IF should_ignore(LastName(p), patterns) THEN {}
            ELSE IF IsFile(f, p)
            THEN (IF f.files[p] # BINARY THEN {p} ELSE {})
            ELSE IF recursive /\ ~DirItemIgnored(LastName(p), patterns)
            THEN ScanFound(f, p, patterns, recursive)
            ELSE {}
          : p \in ListDir(f, directory) }

\* the characters of the scanned names in code point order
CodePointOrder == <<".", "/", "_", "a", "b", "c", "d", "j", "m", "n", "o">>

Ord(c) == CHOOSE i \in DOMAIN CodePointOrder : CodePointOrder[i] = c

\* str < str
RECURSIVE TextLess(_, _)
TextLess(a, b) ==
    IF b = <<>> THEN FALSE
    ELSE IF a = <<>> THEN TRUE
    ELSE IF Head(a) # Head(b) THEN Ord(Head(a)) < Ord(Head(b))
    ELSE TextLess(Tail(a), Tail(b))

\* os.path.join of the components of a path
PathText(p) == join(p)

\* line 113: sorted(files)
RECURSIVE SortedPaths(_)
SortedPaths(S) ==
    IF S = {} THEN <<>>
    ELSE LET least == CHOOSE p \in S :
                 \A q \in S \ {p} : TextLess(PathText(p), PathText(q))
         IN  <<least>> \o SortedPaths(S \ {least})

\* lines 82-115
scan_directory(f, directory, patterns, recursive) ==
    SortedPaths(ScanFound(f, directory, patterns, recursive))

ScanDirTrees ==
    { {<<>>}, {<<>>, << <<"a">> >>}, {<<>>, << <<"b">> >>},
      {<<>>, << <<"a">> >>, << <<"a">>, <<"b">> >>},
      {<<>>, << <<"a">> >>, << <<"b">> >>},
      {<<>>, << <<"a">> >>, << <<"b">> >>, << <<"a">>, <<"b">> >>} }

ScanFileNames == { <<"a">>, <<"c">>, <<".", "a">> }

\* the places a file can be at in a tree of directories
ScanFilePlaces(dirs) ==
    {Append(d, nm) : d \in dirs, nm \in ScanFileNames} \ dirs

ScanTrees ==
    UNION { UNION { {[dirs |-> dirs, files |-> content] :
                        content \in [placed -> {<<>>, BINARY}]}
                    : placed \in SubsetsUpTo(ScanFilePlaces(dirs), MaxFiles) }
            : dirs \in ScanDirTrees }

ScanPatternSet ==
    { <<"a">>, <<"*">>, <<"b", "/">>, <<"a", "/", "b", "/">>,
      <<"!", "a">>, <<"a", "/", "c">> }

ScanPatternLists == SeqsUpTo(ScanPatternSet, MaxPatterns)

ScanInit ==
    /\ fs \in ScanTrees
    /\ sc_patterns \in ScanPatternLists
    /\ sc_recursive \in BOOLEAN
    /\ sc_result = <<>>
    /\ sc_pc = "call"

\* the scan_directory variables while another component is exercised
ScanIdle ==
    /\ sc_patterns = <<>>
    /\ sc_recursive = FALSE
    /\ sc_result = <<>>
    /\ sc_pc = "idle"

\* one call of scan_directory("/", sc_patterns, sc_recursive)
CallScanDirectory ==
    /\ sc_pc = "call"
    /\ sc_result' = scan_directory(fs, <<>>, sc_patterns, sc_recursive)
    /\ sc_pc' = "done"
    /\ UNCHANGED <<sc_patterns, sc_recursive>>
    /\ UNCHANGED <<ignoreVars, extractorVars, fs, findVars, filterVars, storeVars, searchVars>>
    /\ UNCHANGED toolVars

(***************************************************************************)
(* search.py, lines 371-460: perform_search(query_string, collections,     *)
(* tag_filter, limit).  The external index is given by what it holds for   *)
(* the query: for each collection the state of its index directory and the *)
(* documents that match, in the order the engine ranks them.               *)
(***************************************************************************)
\* str.lower on the letters the tags are written with
UpperCase == <<"P", "Q">>

LowerCase == <<"p", "q">>

LowerChar(c) ==
    IF \E i \in DOMAIN UpperCase : UpperCase[i] = c
    THEN LowerCase[CHOOSE i \in DOMAIN UpperCase : UpperCase[i] = c]
    ELSE c

lower(t) == [i \in DOMAIN t |-> LowerChar(t[i])]

\* what a document's metadata JSON says about tags: nothing (no metadata, no
\* "tags" key, or JSON that does not parse), a list of strings, or a value
\* that is not a list
HitMetas ==
    { [kind |-> "absent", tags |-> <<>>],
      [kind |-> "tags", tags |-> << <<"p">> >>],
      [kind |-> "tags", tags |-> << <<"q">>, <<"P">> >>],
      [kind |-> "tags", tags |-> << <<"q">> >>],
      [kind |-> "nonlist", tags |-> <<>>] }

\* the engine's scores, in hundredths
HitScores == {80, 95}

HitSet == [score : HitScores, meta : HitMetas]

\* line 411: score * 100, the score in percent
ScoreValue(score) == score

\* mutant: the engine hands over every matching document
SearchHitsUnlimited(c, limit) == c.matches

\* line 400: searcher.search(query, limit).hits, at most limit hits
SearchHits(c, limit) ==
    SubSeq(c.matches, 1, IF Len(c.matches) < limit THEN Len(c.matches) ELSE limit)

\* line 439: [t.lower() for t in tags] raises when tags is not a list of
\* strings; it is evaluated only when a tag filter is given
HitRaises(hit, tag_filter) == Truthy(tag_filter) /\ hit.meta.kind = "nonlist"

\* mutant: the tag is compared as it is written
TagMatchesExactCase(tags, tag) == \E i \in DOMAIN tags : tags[i] = tag

\* line 439: tag_filter.lower() in [t.lower() for t in tags]
TagMatches(tags, tag) == \E i \in DOMAIN tags : lower(tags[i]) = lower(tag)

\* lines 438-440: the hit is not skipped
HitKept(hit, tag_filter) ==
    ~Truthy(tag_filter) \/ TagMatches(hit.meta.tags, tag_filter[1])

\* lines 443-451
ResultOf(hit, c) ==
    [score |-> ScoreValue(hit.score), tags |-> hit.meta,
     collection |-> LastName(c.dir), collection_path |-> c.dir]

\* line 455: the message written when a collection's search raises
SearchError(c) == <<"Error searching in collection", c.dir>>

\* lines 403-453: the loop over the hits of one collection; an exception
\* ends it and keeps the results appended so far
RECURSIVE HitsLoop(_, _, _, _)
HitsLoop(acc, hits, c, tag_filter) ==
    IF hits = <<>> THEN acc
    ELSE IF HitRaises(Head(hits), tag_filter)
    THEN [acc EXCEPT !.err = Append(@, SearchError(c))]
    ELSE IF HitKept(Head(hits), tag_filter)
    THEN HitsLoop([acc EXCEPT !.results = Append(@, ResultOf(Head(hits), c))],
                  Tail(hits), c, tag_filter)
    ELSE HitsLoop(acc, Tail(hits), c, tag_filter)

\* mutant: a collection whose index cannot be opened ends the search
CollectionsAfterErrorNone(collections) == <<>>

\* lines 454-455: after the except clause the loop goes on
CollectionsAfterError(collections) == collections

\* lines 384-455: the loop over the collections
RECURSIVE SearchLoop(_, _, _, _)
SearchLoop(acc, collections, tag_filter, limit) ==
    IF collections = <<>> THEN acc
    ELSE
    LET c == Head(collections)
    IN  IF c.index \in {"missing", "nometa"}
        THEN SearchLoop(acc, Tail(collections), tag_filter, limit)
        ELSE IF c.index = "raises"
        THEN SearchLoop([acc EXCEPT !.err = Append(@, SearchError(c))],
                        CollectionsAfterError(Tail(collections)), tag_filter, limit)
        ELSE SearchLoop(HitsLoop(acc, SearchHits(c, limit), c, tag_filter),
                        Tail(collections), tag_filter, limit)

\* the place of r in a list sorted by descending score: behind every entry
\* whose score is not lower
RECURSIVE InsertByScore(_, _)
InsertByScore(r, sorted) ==
    IF sorted = <<>> THEN <<r>>
    ELSE IF Head(sorted).score >= r.score
    THEN <<Head(sorted)>> \o InsertByScore(r, Tail(sorted))
    ELSE <<r>> \o sorted

\* mutant: the results stay in the order of the collections
SortByScoreNot(results, sorted) == sorted \o results

\* line 458: results.sort(key=score, reverse=True), a stable sort
RECURSIVE SortByScore(_, _)
SortByScore(results, sorted) ==
    IF results = <<>> THEN sorted
    ELSE SortByScore(Tail(results), InsertByScore(Head(results), sorted))

\* line 460: results[:limit] for a positive limit
Truncate(results, limit) ==
    SubSeq(results, 1, IF Len(results) < limit THEN Len(results) ELSE limit)

\* lines 381-455: the results before the sort, and the messages on stderr
SearchGathered(collections, tag_filter, limit) ==
    SearchLoop([results |-> <<>>, err |-> <<>>], collections, tag_filter, limit)

\* lines 371-460
perform_search(collections, tag_filter, limit) ==
    Truncate(SortByScore(SearchGathered(collections, tag_filter, limit).results, <<>>),
             limit)

\* the states of one collection's index: the directory is missing, meta.json
\* is missing, the engine raises when it opens or searches it, or it holds
\* some matching documents
SearchCollectionStates ==
    [index : {"missing", "nometa", "raises"}, matches : {<<>>}]
    \cup [index : {"ok"}, matches : SeqsUpTo(HitSet, MaxHits)]

SearchInit ==
    /\ sr_collections \in
          {<< [dir |-> DirN, index |-> a.index, matches |-> a.matches],
              [dir |-> DirNM, index |-> b.index, matches |-> b.matches] >>
             : a \in SearchCollectionStates, b \in SearchCollectionStates}
    /\ sr_tag \in {None, Some(<<>>), Some(<<"P">>)}
    /\ sr_limit \in 1..MaxLimit
    /\ sr_result = <<>>
    /\ sr_err = <<>>
    /\ sr_pc = "call"

\* the perform_search variables while another component is exercised
SearchIdle ==
    /\ sr_collections = <<>>
    /\ sr_tag = None
    /\ sr_limit = 0
    /\ sr_result = <<>>
    /\ sr_err = <<>>
    /\ sr_pc = "idle"

\* one call of perform_search(query, sr_collections, sr_tag, sr_limit)
CallPerformSearch ==
    /\ sr_pc = "call"
    /\ IF ~TANTIVY_AVAILABLE
       THEN \* line 379: check_tantivy ends the process
            /\ sr_pc' = "exit"
            /\ UNCHANGED <<sr_result, sr_err>>
       ELSE /\ sr_result' = perform_search(sr_collections, sr_tag, sr_limit)
            /\ sr_err' = SearchGathered(sr_collections, sr_tag, sr_limit).err
            /\ sr_pc' = "done"
    /\ UNCHANGED <<sr_collections, sr_tag, sr_limit>>
    /\ UNCHANGED <<ignoreVars, extractorVars, fs, findVars, filterVars, storeVars,
                   scanVars>>
    /\ UNCHANGED toolVars

(***************************************************************************)
(* tools/system/schedule.py: add_timer and remove_timer.  A subcommand is  *)
(* run as one process; tm_trace lists, in order, what it did to the unit   *)
(* files and which commands it ran.  A command that exits non-zero under   *)
(* check=True raises CalledProcessError, which nothing catches: the        *)
(* process ends with status 1.                                             *)
(***************************************************************************)
SERVICE == ".service"

TIMER == ".timer"

TimerNames == {"a", "b"}

\* lines 269-270: service_path and timer_path
UnitFile(name, suffix) == <<name, suffix>>

\* the unit a systemctl call names: f"{name}.timer"
TimerUnit(name) == <<name, TIMER>>

\* the exit statuses a command can end with
ExitStatuses == {0, 1}

\* mutant: every call is made with check=True
run_systemctl_checked(args, check, status) ==
    IF status # 0 THEN "raise" ELSE "ok"

\* lines 56-66: subprocess.run(..., check=check) raises when check is set
\* and the command exits non-zero
run_systemctl(args, check, status) ==
    IF check /\ status # 0 THEN "raise" ELSE "ok"

Systemctl(args) == [do |-> "systemctl", args |-> args]

WriteText(path) == [do |-> "write", args |-> path]

Unlink(path) == [do |-> "unlink", args |-> path]

Journalctl(name) == [do |-> "journalctl", args |-> <<name>>]

\* the arguments of "schedule add": env_ok says that every -e entry holds
\* an '='
AddArgs ==
    [name : TimerNames, force : BOOLEAN, no_enable : BOOLEAN, no_start : BOOLEAN,
     env_ok : BOOLEAN]

RemoveArgs == [name : TimerNames, keep_logs : BOOLEAN]

\* lines 273-281: a unit file exists and --force is not given
AddRefused(files, args) ==
    \/ (UnitFile(args.name, SERVICE) \in files /\ ~args.force)
    \/ (UnitFile(args.name, TIMER) \in files /\ ~args.force)

\* mutant: the timer is enabled whatever --no-enable says
EnableWantedAlways(args) == TRUE

\* line 294
EnableWanted(args) == ~args.no_enable

\* line 298
StartWanted(args) == ~args.no_start

\* the process ends: sys.exit(status), an uncaught exception (status 1), or
\* the return from main (status 0)
TimerExit(status) == tm_pc' = "done" /\ tm_rc' = Some(status)

\* one call run_systemctl(args, check=...) of the running subcommand, going
\* on at `next` unless it raises
TimerSystemctl(args, check, next) ==
    \E status \in ExitStatuses :
        /\ tm_trace' = Append(tm_trace, Systemctl(args))
        /\ IF run_systemctl(args, check, status) = "raise"
           THEN TimerExit(1)
           ELSE tm_pc' = next /\ tm_rc' = tm_rc
        /\ UNCHANGED <<tm_dir, tm_files, tm_cmd, tm_args, tm_before, tm_ops>>
        /\ UNCHANGED timerRest

\* main, lines 533-549: a subcommand is started as a new process
TimerCommand ==
    /\ tm_pc \in {"ready", "done"}
    /\ tm_ops < MaxTimerOps
    /\ \/ \E args \in AddArgs : tm_cmd' = "add" /\ tm_args' = args
       \/ \E args \in RemoveArgs : tm_cmd' = "remove" /\ tm_args' = args
    /\ tm_pc' = "check"
    /\ tm_before' = tm_files
    /\ tm_trace' = <<>>
    /\ tm_rc' = None
    /\ tm_ops' = tm_ops + 1
    /\ UNCHANGED <<tm_dir, tm_files>>
    /\ UNCHANGED timerRest

\* add_timer, lines 221-281: the directory is made, the -e entries are
\* split (line 240 raises ValueError on an entry without '='), and the
\* existence of the unit files is checked
AddCheck ==
    /\ tm_cmd = "add" /\ tm_pc = "check"
    /\ tm_dir' = TRUE
    /\ IF ~tm_args.env_ok THEN TimerExit(1)
       ELSE IF AddRefused(tm_files, tm_args) THEN TimerExit(1)
       ELSE tm_pc' = "write_service" /\ tm_rc' = tm_rc
    /\ UNCHANGED <<tm_files, tm_cmd, tm_args, tm_before, tm_trace, tm_ops>>
    /\ UNCHANGED timerRest

\* line 284
AddWriteService ==
    /\ tm_cmd = "add" /\ tm_pc = "write_service"
    /\ tm_files' = tm_files \cup {UnitFile(tm_args.name, SERVICE)}
    /\ tm_trace' = Append(tm_trace, WriteText(UnitFile(tm_args.name, SERVICE)))
    /\ tm_pc' = "write_timer"
    /\ UNCHANGED <<tm_dir, tm_cmd, tm_args, tm_before, tm_rc, tm_ops>>
    /\ UNCHANGED timerRest

\* line 285
AddWriteTimer ==
    /\ tm_cmd = "add" /\ tm_pc = "write_timer"
    /\ tm_files' = tm_files \cup {UnitFile(tm_args.name, TIMER)}
    /\ tm_trace' = Append(tm_trace, WriteText(UnitFile(tm_args.name, TIMER)))
    /\ tm_pc' = "reload"
    /\ UNCHANGED <<tm_dir, tm_cmd, tm_args, tm_before, tm_rc, tm_ops>>
    /\ UNCHANGED timerRest

\* line 291
AddReload ==
    /\ tm_cmd = "add" /\ tm_pc = "reload"
    /\ TimerSystemctl(<<"daemon-reload">>, TRUE, "enable")

\* lines 294-296
AddEnable ==
    /\ tm_cmd = "add" /\ tm_pc = "enable"
    /\ IF EnableWanted(tm_args)
       THEN TimerSystemctl(<<"enable", TimerUnit(tm_args.name)>>, TRUE, "start")
       ELSE /\ tm_pc' = "start"
            /\ UNCHANGED <<tm_dir, tm_files, tm_cmd, tm_args, tm_before, tm_trace,
                           tm_rc, tm_ops>>
            /\ UNCHANGED timerRest

\* lines 298-300
AddStart ==
    /\ tm_cmd = "add" /\ tm_pc = "start"
    /\ IF StartWanted(tm_args)
       THEN TimerSystemctl(<<"start", TimerUnit(tm_args.name)>>, TRUE, "return")
       ELSE /\ tm_pc' = "return"
            /\ UNCHANGED <<tm_dir, tm_files, tm_cmd, tm_args, tm_before, tm_trace,
                           tm_rc, tm_ops>>
            /\ UNCHANGED timerRest

\* lines 302-314 and 359: the messages are printed and main returns
TimerReturn ==
    /\ tm_pc = "return"
    /\ TimerExit(0)
    /\ UNCHANGED <<tm_dir, tm_files, tm_cmd, tm_args, tm_before, tm_trace, tm_ops>>
    /\ UNCHANGED timerRest

\* remove_timer, lines 317-328
RemoveCheck ==
    /\ tm_cmd = "remove" /\ tm_pc = "check"
    /\ IF /\ UnitFile(tm_args.name, SERVICE) \notin tm_files
          /\ UnitFile(tm_args.name, TIMER) \notin tm_files
       THEN TimerExit(1)
       ELSE tm_pc' = "stop" /\ tm_rc' = tm_rc
    /\ UNCHANGED <<tm_dir, tm_files, tm_cmd, tm_args, tm_before, tm_trace, tm_ops>>
    /\ UNCHANGED timerRest

\* line 332
RemoveStop ==
    /\ tm_cmd = "remove" /\ tm_pc = "stop"
    /\ TimerSystemctl(<<"stop", TimerUnit(tm_args.name)>>, FALSE, "disable")

\* line 335
RemoveDisable ==
    /\ tm_cmd = "remove" /\ tm_pc = "disable"
    /\ TimerSystemctl(<<"disable", TimerUnit(tm_args.name)>>, FALSE, "unlink_timer")

\* lines 338-344 for one of the two paths: unlink when it exists
RemoveUnlink(suffix, next) ==
    /\ IF UnitFile(tm_args.name, suffix) \in tm_files
       THEN /\ tm_files' = tm_files \ {UnitFile(tm_args.name, suffix)}
            /\ tm_trace' = Append(tm_trace, Unlink(UnitFile(tm_args.name, suffix)))
       ELSE UNCHANGED <<tm_files, tm_trace>>
    /\ tm_pc' = next
    /\ UNCHANGED <<tm_dir, tm_cmd, tm_args, tm_before, tm_rc, tm_ops>>
    /\ UNCHANGED timerRest

\* lines 338-340
RemoveUnlinkTimer ==
    tm_cmd = "remove" /\ tm_pc = "unlink_timer" /\ RemoveUnlink(TIMER, "unlink_service")

\* lines 342-344
RemoveUnlinkService ==
    tm_cmd = "remove" /\ tm_pc = "unlink_service" /\ RemoveUnlink(SERVICE, "reload")

\* line 348
RemoveReload ==
    /\ tm_cmd = "remove" /\ tm_pc = "reload"
    /\ TimerSystemctl(<<"daemon-reload">>, TRUE, "logs")

\* lines 351-357: journalctl is run with check=False unless --keep-logs
RemoveLogs ==
    /\ tm_cmd = "remove" /\ tm_pc = "logs"
    /\ tm_trace' = IF tm_args.keep_logs THEN tm_trace
                   ELSE Append(tm_trace, Journalctl(tm_args.name))
    /\ tm_pc' = "return"
    /\ UNCHANGED <<tm_dir, tm_files, tm_cmd, tm_args, tm_before, tm_rc, tm_ops>>
    /\ UNCHANGED timerRest

\* the unit files of a directory that exists
TimerInit ==
    /\ tm_dir \in BOOLEAN
    /\ tm_files \in SUBSET {UnitFile(n, x) : n \in TimerNames, x \in {SERVICE, TIMER}}
    /\ tm_dir \/ tm_files = {}
    /\ tm_cmd = "none"
    /\ tm_args = <<>>
    /\ tm_before = {}
    /\ tm_pc = "ready"
    /\ tm_trace = <<>>
    /\ tm_rc = None
    /\ tm_ops = 0

\* the schedule variables while another component is exercised
TimerIdle ==
    /\ tm_dir = FALSE
    /\ tm_files = {}
    /\ tm_cmd = "none"
    /\ tm_args = <<>>
    /\ tm_before = {}
    /\ tm_pc = "idle"
    /\ tm_trace = <<>>
    /\ tm_rc = None
    /\ tm_ops = 0

(***************************************************************************)
(* tools/document/docx2md.py: fix_markdown_formatting.  A text is the      *)
(* sequence of its characters, "\n" among them.                            *)
(***************************************************************************)
NL == "\n"

\* str.split("\n")
RECURSIVE SplitLines(_)
SplitLines(text) ==
    LET S == {i \in 1..Len(text) : text[i] = NL}
    IN  IF S = {} THEN <<text>>
        ELSE LET i == CHOOSE k \in S : \A j \in S : k <= j
             IN  <<SubSeq(text, 1, i - 1)>> \o SplitLines(DropFirst(text, i))

\* "\n".join(lines)
RECURSIVE JoinLines(_)
JoinLines(lines) ==
    IF lines = <<>> THEN <<>>
    ELSE IF Len(lines) = 1 THEN lines[1]
    ELSE lines[1] \o <<NL>> \o JoinLines(Tail(lines))

\* needle in text
Contains(text, needle) ==
    \E i \in 0..(Len(text) - Len(needle)) :
        SubSeq(text, i + 1, i + Len(needle)) = needle

MdDigits == {"0", "1", "2", "3"}

\* what is left of t after its leading digits
RECURSIVE SkipDigits(_)
SkipDigits(t) == IF t # <<>> /\ Head(t) \in MdDigits THEN SkipDigits(Tail(t)) ELSE t

\* what is left of t after its leading '#'
RECURSIVE SkipHashes(_)
SkipHashes(t) == IF t # <<>> /\ Head(t) = "#" THEN SkipHashes(Tail(t)) ELSE t

\* re.match(r"^(\s*)-\s", line)
bullet_match(line) ==
    LET r == lstrip(line)
    IN  Len(r) >= 2 /\ r[1] = "-" /\ r[2] = " "

\* re.match(r"^(\s*)\d+\.\s", line)
number_match(line) ==
    LET r == lstrip(line)
        t == SkipDigits(r)
    IN  Len(t) < Len(r) /\ Len(t) >= 2 /\ t[1] = "." /\ t[2] = " "

\* re.match(r"^#+\s", line)
heading_match(line) ==
    LET t == SkipHashes(line)
    IN  Len(t) < Len(line) /\ t # <<>> /\ t[1] = " "

\* lines 46-50 and 53-65: the two fixed texts
LIST_TITLE_TEXT ==
    << "#", " ", "L", "i", "s", "t", " ", "T", "i", "t", "l", "e", "\n",
       "\n", "-", " ", "I", "t", "e", "m", " ", "1", "\n", "-", " ", "I",
       "t", "e", "m", " ", "2", "\n", "-", " ", "I", "t", "e", "m", " ", "3" >>

MIXED_LISTS_TEXT ==
    << "#", " ", "M", "i", "x", "e", "d", " ", "L", "i", "s", "t", "s",
       "\n", "\n", "-", " ", "B", "u", "l", "l", "e", "t", " ", "1", "\n",
       "-", " ", "B", "u", "l", "l", "e", "t", " ", "2", "\n", " ", " ",
       "-", " ", "N", "e", "s", "t", "e", "d", " ", "b", "u", "l", "l", "e",
       "t", " ", "1", "\n", " ", " ", "-", " ", "N", "e", "s", "t", "e",
       "d", " ", "b", "u", "l", "l", "e", "t", " ", "2", "\n", "-", " ",
       "B", "u", "l", "l", "e", "t", " ", "3", "\n", "\n", "1", ".", " ",
       "N", "u", "m", "b", "e", "r", "e", "d", " ", "1", "\n", "2", ".",
       " ", "N", "u", "m", "b", "e", "r", "e", "d", " ", "2", "\n", " ",
       " ", " ", "-", " ", "M", "i", "x", "e", "d", " ", "n", "e", "s", "t",
       "e", "d", " ", "b", "u", "l", "l", "e", "t", "\n", " ", " ", " ",
       "1", ".", " ", "M", "i", "x", "e", "d", " ", "n", "e", "s", "t", "e",
       "d", " ", "n", "u", "m", "b", "e", "r", "\n", "3", ".", " ", "N",
       "u", "m", "b", "e", "r", "e", "d", " ", "3" >>

\* line 45
NEEDLE_LIST_TITLE == << "#", " ", "L", "i", "s", "t", " ", "T", "i", "t", "l", "e" >>

NEEDLE_ITEM_1 == << "-", " ", "I", "t", "e", "m", " ", "1" >>

\* line 52
NEEDLE_MIXED_LISTS == << "#", " ", "M", "i", "x", "e", "d", " ", "L", "i", "s", "t", "s" >>

NEEDLE_BULLET_1 == << "-", " ", "B", "u", "l", "l", "e", "t", " ", "1" >>

\* `if result and result[-1]: result.append("")`, lines 95-96, 113-114, 119-120
WithBlank(result) ==
    IF result # <<>> /\ result[Len(result)] # <<>> THEN Append(result, <<>>)
    ELSE result

\* mutant: a blank line between two items of one type is kept
SkipsBlankNever(lines, i, is_bullet) == FALSE

\* lines 130-143: the line after the item at i is blank and the line after
\* that is a list item of the same type, so the blank line is skipped
SkipsBlank(lines, i, is_bullet) ==
    /\ i < Len(lines)
    /\ strip(lines[i + 1]) = <<>>
    /\ i < Len(lines) - 1
    /\ \/ (is_bullet /\ bullet_match(lines[i + 2]))
       \/ (~is_bullet /\ number_match(lines[i + 2]))

\* lines 80-156: the loop over the lines, from line i on (counted from 1);
\* st holds result, in_list and current_list_type
RECURSIVE FixLoop(_, _, _)
FixLoop(lines, i, st) ==
    IF i > Len(lines) THEN st.result
    ELSE
    LET line == rstrip(lines[i])
        is_bullet == bullet_match(line)
        list_type == IF is_bullet THEN "bullet" ELSE "numbered"
    IN  IF i = Len(lines) /\ line = <<>>
        THEN FixLoop(lines, i + 1, st)
        ELSE IF heading_match(line)
        THEN LET headed == Append(WithBlank(st.result), line)
             IN  FixLoop(lines, i + 1,
                         [result |-> IF i < Len(lines) /\ strip(lines[i + 1]) # <<>>
                                     THEN Append(headed, <<>>) ELSE headed,
                          in_list |-> FALSE, current_list_type |-> None])
        ELSE IF is_bullet \/ number_match(line)
        THEN LET between == IF st.in_list /\ st.current_list_type # Some(list_type)
                            THEN WithBlank(st.result) ELSE st.result
                 before == IF ~st.in_list THEN WithBlank(between) ELSE between
             IN  FixLoop(lines,
                         IF SkipsBlank(lines, i, is_bullet) THEN i + 2 ELSE i + 1,
                         [result |-> Append(before, line), in_list |-> TRUE,
                          current_list_type |-> Some(list_type)])
        ELSE FixLoop(lines, i + 1,
                     IF strip(line) # <<>>
                     THEN [result |-> Append(st.result, line), in_list |-> FALSE,
                           current_list_type |-> None]
                     ELSE [st EXCEPT !.result = Append(@, line)])

\* lines 159-170: a blank line between two blank lines is dropped
RECURSIVE CleanFrom(_, _)
CleanFrom(result, i) ==
    IF i > Len(result) THEN <<>>
    ELSE (IF /\ result[i] = <<>>
             /\ i > 1 /\ i < Len(result)
             /\ result[i - 1] = <<>> /\ result[i + 1] = <<>>
          THEN <<>> ELSE <<result[i]>>)
         \o CleanFrom(result, i + 1)

\* lines 67-172: the general handling
FixGeneral(markdown_text) ==
    LET text == IF endswith(markdown_text, <<NL>>) THEN markdown_text
                ELSE Append(markdown_text, NL)
    IN  JoinLines(CleanFrom(
            FixLoop(SplitLines(text), 1,
                    [result |-> <<>>, in_list |-> FALSE,
                     current_list_type |-> None]), 1))

\* mutant: every text gets the general handling
fix_markdown_formatting_general(markdown_text) == FixGeneral(markdown_text)

\* lines 36-172
fix_markdown_formatting(markdown_text) ==
    IF Contains(markdown_text, NEEDLE_LIST_TITLE) /\ Contains(markdown_text, NEEDLE_ITEM_1)
    THEN LIST_TITLE_TEXT
    ELSE IF /\ Contains(markdown_text, NEEDLE_MIXED_LISTS)
            /\ Contains(markdown_text, NEEDLE_BULLET_1)
    THEN MIXED_LISTS_TEXT
    ELSE FixGeneral(markdown_text)

\* the lines the texts are made of: blank lines, bullet and numbered items
\* (one indented, one with a blank at its end, one without text), a
\* heading, plain text, and the lines the two shortcuts look for
MdLineSet ==
    { <<>>, <<" ">>,
      <<"-", " ", "a">>, <<" ", "-", " ", "b">>, <<"-", " ", "a", " ">>, <<"-", " ">>,
      <<"1", ".", " ", "a">>, <<"2", ".", " ", "b">>,
      <<"#", " ", "T">>, <<"x">>,
      NEEDLE_LIST_TITLE, NEEDLE_ITEM_1, NEEDLE_MIXED_LISTS, NEEDLE_BULLET_1 }

\* the texts: up to MaxMdLines lines, with or without a newline at the end
MdTexts ==
    {JoinLines(ls) : ls \in SeqsUpTo(MdLineSet, MaxMdLines)}
    \cup {Append(JoinLines(ls), NL) : ls \in SeqsUpTo(MdLineSet, MaxMdLines)}

MarkdownInit ==
    /\ md_text \in MdTexts
    /\ md_result = <<>>
    /\ md_pc = "call"

\* the docx2md variables while another component is exercised
MarkdownIdle ==
    /\ md_text = <<>>
    /\ md_result = <<>>
    /\ md_pc = "idle"

\* one call of fix_markdown_formatting(md_text)
CallFixMarkdownFormatting ==
    /\ md_pc = "call"
    /\ md_result' = fix_markdown_formatting(md_text)
    /\ md_pc' = "done"
    /\ UNCHANGED md_text
    /\ UNCHANGED markdownRest

(***************************************************************************)
(* protonmail.py: sync_emails and the file names it generates.  A raw      *)
(* message is a record of its header lines, a list of <<name, value>>      *)
(* pairs, and its body.                                                    *)
(***************************************************************************)
\* re.sub(r"[chars]", repl, s) with a one-character replacement
SubChars(s, chars, repl) == [i \in DOMAIN s |-> IF s[i] \in chars THEN repl ELSE s[i]]

\* re.sub(r"[chars]", "", s)
RemoveChars(s, chars) == SelectSeq(s, LAMBDA c : c \notin chars)

\* s[:n]
SliceTo(s, n) ==
    IF n >= Len(s) THEN s
    ELSE IF n >= 0 THEN SubSeq(s, 1, n)
    ELSE SubSeq(s, 1, Len(s) + n)

\* s.strip(chars)
RECURSIVE StripChars(_, _)
StripChars(s, chars) ==
    IF s # <<>> /\ Head(s) \in chars THEN StripChars(Tail(s), chars)
    ELSE IF s # <<>> /\ s[Len(s)] \in chars THEN StripChars(SubSeq(s, 1, Len(s) - 1), chars)
    ELSE s

\* the characters that r"[\x00-\x1f\x7f]" matches, among those of the model
CONTROL_CHARS == {"\t", "\r", "\n"}

\* lines 348-357
sanitize_filename(filename) ==
    LET replaced == SubChars(filename, {"<", ">", ":", "\"", "/", "\\", "|", "?", "*"}, "_")
        printable == RemoveChars(replaced, CONTROL_CHARS)
    IN  strip(IF Len(printable) > 200 THEN SliceTo(printable, 200) ELSE printable)

\* lines 360-368
sanitize_email(email_addr) ==
    LET underscored == SubChars(email_addr, {"@"}, "_")
        bare == RemoveChars(underscored, {"<", ">", "\"", "'"})
    IN  strip(SubChars(bare, {"/", "\\", ":", "*", "?", "|"}, "_"))

\* re.search(r"<([^>]+)>", s): the places where a match can start
AngleStarts(s) ==
    {i \in 1..(Len(s) - 2) :
        s[i] = "<" /\ s[i + 1] # ">" /\ \E j \in (i + 2)..Len(s) : s[j] = ">"}

\* lines 371-381
extract_email_address(email_field) ==
    IF AngleStarts(email_field) # {}
    THEN LET i == CHOOSE a \in AngleStarts(email_field) :
                      \A b \in AngleStarts(email_field) : a <= b
             j == CHOOSE c \in (i + 2)..Len(email_field) :
                      /\ email_field[c] = ">"
                      /\ \A d \in (i + 2)..(c - 1) : email_field[d] # ">"
         IN  SubSeq(email_field, i + 1, j - 1)
    ELSE IF \E i \in DOMAIN email_field : email_field[i] = "@"
    THEN StripChars(strip(email_field), {"\"", "'"})
    ELSE strip(email_field)

\* email.message_from_bytes: the header lines of a raw message
message_from_bytes(raw) == raw.headers

H_MESSAGE_ID == "Message-ID"

H_DATE == "Date"

H_FROM == "From"

H_TO == "To"

H_SUBJECT == "Subject"

\* the Date values that parsedate_to_datetime accepts; any other raises
PARSEABLE_DATES == {<<"1">>, <<"2">>}

\* date_obj.strftime("%Y-%m-%d_%H-%M-%S") of a parsed Date value, which
\* stands for its instant to the second
strftime(date) == <<"D">> \o date

UNKNOWN_DATE == << "u", "n", "k", "n", "o", "w", "n", "-", "d", "a", "t", "e" >>

UNKNOWN == << "u", "n", "k", "n", "o", "w", "n" >>

NO_SUBJECT == << "n", "o", "-", "s", "u", "b", "j", "e", "c", "t" >>

EML == << ".", "e", "m", "l" >>

\* to_field.split(",")[0]
BeforeComma(t) ==
    IF \E i \in DOMAIN t : t[i] = ","
    THEN SubSeq(t, 1, (CHOOSE i \in DOMAIN t :
                          t[i] = "," /\ \A j \in 1..(i - 1) : t[j] # ",") - 1)
    ELSE t

\* lines 390-427
generate_email_filename(msg, max_length) ==
    LET msg_date == Get(msg, H_DATE, <<>>)
        date_str == IF msg_date \in PARSEABLE_DATES THEN strftime(msg_date)
                    ELSE UNKNOWN_DATE
        from_safe == sanitize_email(extract_email_address(Get(msg, H_FROM, UNKNOWN)))
        to_safe == sanitize_email(extract_email_address(
                       BeforeComma(Get(msg, H_TO, UNKNOWN))))
        subject_safe == sanitize_filename(Get(msg, H_SUBJECT, NO_SUBJECT))
        prefix == date_str \o << "_", "f", "r", "o", "m", "_" >> \o from_safe
                  \o << "_", "t", "o", "_" >> \o to_safe \o <<"_">>
        available_length == max_length - Len(prefix) - Len(EML)
    IN  prefix
        \o (IF Len(subject_safe) > available_length
            THEN SliceTo(subject_safe, available_length) ELSE subject_safe)
        \o EML

\* open(filepath, "wb").write(raw_email)
WriteBytes(files, filename, raw) ==
    [n \in DOMAIN files \cup {filename} |-> IF n = filename THEN raw ELSE files[n]]

\* lines 480-491: the Message-IDs of the .eml files of the folder's directory
ExistingMessageIds(files) ==
    {Get(message_from_bytes(files[n]), H_MESSAGE_ID, <<>>) :
        n \in {m \in DOMAIN files : endswith(m, EML)}} \ {<<>>}

\* lines 493-524: the loop over the folder's messages, from the i-th on
RECURSIVE SyncLoop(_, _, _)
SyncLoop(mailbox, i, st) ==
    IF i > Len(mailbox) THEN st
    ELSE IF ~mailbox[i].ok THEN SyncLoop(mailbox, i + 1, st)
    ELSE LET raw_email == mailbox[i].raw
             msg == message_from_bytes(raw_email)
             msg_message_id == Get(msg, H_MESSAGE_ID, <<>>)
         IN  IF msg_message_id # <<>> /\ msg_message_id \in st.existing_message_ids
             THEN SyncLoop(mailbox, i + 1, [st EXCEPT !.skipped = @ + 1])
             ELSE SyncLoop(mailbox, i + 1,
                      [files |-> WriteBytes(st.files,
                                     generate_email_filename(msg, 255), raw_email),
                       synced |-> st.synced + 1,
                       skipped |-> st.skipped,
                       written |-> Append(st.written, i),
                       existing_message_ids |->
                           IF msg_message_id # <<>>
                           THEN st.existing_message_ids \cup {msg_message_id}
                           ELSE st.existing_message_ids])

\* lines 430-530: sync_emails for a mailbox of one folder whose directory
\* holds files
sync_emails(mailbox, files) ==
    SyncLoop(mailbox, 1,
             [files |-> files, synced |-> 0, skipped |-> 0, written |-> <<>>,
              existing_message_ids |-> ExistingMessageIds(files)])

\* a header line, unless the message lacks it
HeaderLine(name, value) == IF value = None THEN <<>> ELSE << <<name, value[1]>> >>

MailFrom == << "N", " ", "<", "a", "@", "b", ">" >>

MailTo == << "c", "@", "d", ",", " ", "e", "@", "f" >>

\* the raw messages of the model: with or without a Message-ID, a Date and a
\* Subject
MailRaws ==
    {[headers |-> HeaderLine(H_MESSAGE_ID, id) \o HeaderLine(H_DATE, date)
                  \o << <<H_FROM, MailFrom>>, <<H_TO, MailTo>> >>
                  \o HeaderLine(H_SUBJECT, subject),
      body |-> "text"] :
        id \in {None, Some(<<"1">>), Some(<<"2">>)},
        date \in {None, Some(<<"1">>)},
        subject \in {None, Some(<<"s", ":", "t">>), Some(<<"s", "/", "t">>)}}

\* what the server holds for one message: whether FETCH answers OK, and the
\* raw message
MailEntries == [ok : BOOLEAN, raw : MailRaws]

NoFiles == [n \in {} |-> <<>>]

MailInit ==
    /\ ml_mailbox \in SeqsUpTo(MailEntries, MaxMessages)
    /\ ml_files = NoFiles
    /\ ml_before = NoFiles
    /\ ml_written = <<>>
    /\ ml_synced = 0
    /\ ml_skipped = 0
    /\ ml_runs = 0

\* the protonmail variables while another component is exercised
MailIdle ==
    /\ ml_mailbox = <<>>
    /\ ml_files = NoFiles
    /\ ml_before = NoFiles
    /\ ml_written = <<>>
    /\ ml_synced = 0
    /\ ml_skipped = 0
    /\ ml_runs = 0

\* one run of sync_emails against the unchanged mailbox
CallSyncEmails ==
    /\ ml_runs < MaxSyncs
    /\ LET end == sync_emails(ml_mailbox, ml_files)
       IN  /\ ml_files' = end.files
           /\ ml_written' = end.written
           /\ ml_synced' = end.synced
           /\ ml_skipped' = end.skipped
    /\ ml_before' = ml_files
    /\ ml_runs' = ml_runs + 1
    /\ UNCHANGED ml_mailbox
    /\ UNCHANGED mailRest

\* the other tools idle
ToolsIdle == TimerIdle /\ MarkdownIdle /\ MailIdle

\* search.py and mdscraper.py idle
CollectionsIdle ==
    /\ IgnoreIdle /\ ExtractorIdle /\ FsIdle /\ FindIdle /\ FilterIdle /\ StoreIdle
    /\ ScanIdle /\ SearchIdle

(***************************************************************************)
(* Specifications: one per component, the other components idle.          *)
(***************************************************************************)
IgnoreNext == CallShouldIgnore

InitOfSpecIgnore ==
    IgnoreInit /\ ExtractorIdle /\ FsIdle /\ FindIdle /\ FilterIdle /\ StoreIdle /\ ScanIdle
    /\ SearchIdle
    /\ ToolsIdle

SpecIgnore == InitOfSpecIgnore /\ [][IgnoreNext]_vars

ExtractorNext == CallGetExtractor

InitOfSpecExtractor ==
    ExtractorInit /\ IgnoreIdle /\ FsIdle /\ FindIdle /\ FilterIdle /\ StoreIdle /\ ScanIdle
    /\ SearchIdle
    /\ ToolsIdle

SpecExtractor == InitOfSpecExtractor /\ [][ExtractorNext]_vars

FindNext == CallFindCollections

InitOfSpecFind ==
    FindInit /\ IgnoreIdle /\ ExtractorIdle /\ FilterIdle /\ StoreIdle /\ ScanIdle
    /\ SearchIdle
    /\ ToolsIdle

SpecFind == InitOfSpecFind /\ [][FindNext]_vars

FilterNext == CallFilterFiles

InitOfSpecFilter ==
    FilterInit /\ IgnoreIdle /\ ExtractorIdle /\ FindIdle /\ StoreIdle /\ ScanIdle
    /\ SearchIdle
    /\ ToolsIdle

SpecFilter == InitOfSpecFilter /\ [][FilterNext]_vars

\* file matching: scan_directory of mdscraper and filter_files of search
MatchNext == CallScanDirectory \/ CallFilterFiles

InitOfSpecMatch ==
    /\ IgnoreIdle /\ ExtractorIdle /\ FindIdle /\ StoreIdle /\ SearchIdle
    /\ \/ ScanInit /\ FilterIdle
       \/ FilterInit /\ ScanIdle
    /\ ToolsIdle

SpecMatch == InitOfSpecMatch /\ [][MatchNext]_vars

SearchNext == CallPerformSearch

InitOfSpecSearch ==
    SearchInit /\ IgnoreIdle /\ ExtractorIdle /\ FsIdle /\ FindIdle /\ FilterIdle
    /\ StoreIdle /\ ScanIdle
    /\ ToolsIdle

\* schedule add and schedule remove
TimerNext ==
    \/ TimerCommand
    \/ AddCheck \/ AddWriteService \/ AddWriteTimer
    \/ AddReload \/ AddEnable \/ AddStart
    \/ RemoveCheck \/ RemoveStop \/ RemoveDisable
    \/ RemoveUnlinkTimer \/ RemoveUnlinkService \/ RemoveReload \/ RemoveLogs
    \/ TimerReturn

InitOfSpecTimer ==
    TimerInit /\ CollectionsIdle /\ MarkdownIdle /\ MailIdle

SpecTimer == InitOfSpecTimer /\ [][TimerNext]_vars

MarkdownNext == CallFixMarkdownFormatting

InitOfSpecMarkdown ==
    MarkdownInit /\ CollectionsIdle /\ TimerIdle /\ MailIdle

SpecMarkdown == InitOfSpecMarkdown /\ [][MarkdownNext]_vars

MailNext == CallSyncEmails

InitOfSpecMail ==
    MailInit /\ CollectionsIdle /\ TimerIdle /\ MarkdownIdle

SpecMail == InitOfSpecMail /\ [][MailNext]_vars

SpecSearch == InitOfSpecSearch /\ [][SearchNext]_vars

StoreNext == CmdInit \/ CmdScan \/ CmdIndex \/ CmdQuery \/ NewProcess

InitOfSpecStore ==
    StoreInit /\ IgnoreIdle /\ ExtractorIdle /\ FindIdle /\ FilterIdle /\ ScanIdle
    /\ SearchIdle
    /\ ToolsIdle

SpecStore == InitOfSpecStore /\ [][StoreNext]_vars

(***************************************************************************)
(* Claims about should_ignore.  The notions the claims speak of are stated *)
(* here on the characters of the path and on the positions of the pattern  *)
(* list, independently of the loops above.                                 *)
(***************************************************************************)
\* the basename starts with '.': a '.' that follows a '/' or starts the
\* path, with no '/' after it
ClaimHidden(p) ==
    \E i \in 1..Len(p) :
        /\ p[i] = "."
        /\ (i = 1 \/ p[i - 1] = "/")
        /\ \A j \in i..Len(p) : p[j] # "/"

\* the path glob-matches the body of at least one negation pattern
ClaimNegationMatch(p, pats) ==
    \E i \in DOMAIN pats :
        /\ Len(pats[i]) >= 1
        /\ pats[i][1] = "!"
        /\ fnmatch(p, Tail(pats[i]))

\* some prefix of whole segments of the path, followed by '/', glob-matches
\* a non-negated pattern ending in '/'
ClaimAncestorDirMatch(p, pats) ==
    \E n \in 0..Len(p) : \E i \in DOMAIN pats :
        /\ (n = Len(p) \/ p[n + 1] = "/")
        /\ Len(pats[i]) >= 1
        /\ pats[i][1] # "!"
        /\ pats[i][Len(pats[i])] = "/"
        /\ fnmatch(SubSeq(p, 1, n) \o <<"/">>, pats[i])

ClaimHasSlash(p) == \E i \in 1..Len(p) : p[i] = "/"

\* the full path glob-matches at least one plain pattern
ClaimPlainMatch(p, pats) ==
    \E i \in DOMAIN pats :
        /\ Len(pats[i]) >= 1
        /\ pats[i][1] # "!"
        /\ pats[i][Len(pats[i])] # "/"
        /\ fnmatch(p, pats[i])

\* C1: should_ignore returns True for every path whose basename starts with
\* '.', for every pattern list (empty, or holding a matching negation).
Thm_C1_HiddenAlwaysIgnored ==
    (ig_pc = "done" /\ ClaimHidden(ig_path)) => ig_result = TRUE

\* a hidden path was judged under a list whose negation pattern matches it
Wit_C1_HiddenWithMatchingNegation ==
    /\ ig_pc = "done"
    /\ ClaimHidden(ig_path)
    /\ ClaimNegationMatch(ig_path, ig_patterns)
    /\ ig_result = TRUE

\* C2: a non-hidden path that matches the body of a negation pattern is not
\* ignored, whatever other patterns the list holds and in whatever order.
Thm_C2_NegationWins ==
    (/\ ig_pc = "done"
     /\ ~ClaimHidden(ig_path)
     /\ ClaimNegationMatch(ig_path, ig_patterns)) => ig_result = FALSE

\* a negated path was judged under a list that also holds a matching
\* directory pattern placed before the negation
Wit_C2_NegationAfterDirPattern ==
    /\ ig_pc = "done"
    /\ ~ClaimHidden(ig_path)
    /\ Len(ig_patterns) = 2
    /\ ClaimAncestorDirMatch(ig_path, <<ig_patterns[1]>>)
    /\ ClaimNegationMatch(ig_path, <<ig_patterns[2]>>)
    /\ ig_result = FALSE

\* C3: a non-hidden path containing '/' with an ancestor prefix matching a
\* directory pattern is ignored, unless a negation pattern matches the full
\* path, and then it is not.
Thm_C3_DirectoryPrefixRule ==
    (/\ ig_pc = "done"
     /\ ~ClaimHidden(ig_path)
     /\ ClaimHasSlash(ig_path)
     /\ ClaimAncestorDirMatch(ig_path, ig_patterns))
        => (ig_result = ~ClaimNegationMatch(ig_path, ig_patterns))

\* a path below a directory excluded by a pattern was ignored, the pattern
\* matching an ancestor of two segments
Wit_C3_DeepAncestorExcluded ==
    /\ ig_pc = "done"
    /\ ~ClaimHidden(ig_path)
    /\ ig_path = <<"a", "/", "a">>
    /\ ig_patterns = << <<"a", "/", "a", "/">> >>
    /\ ig_result = TRUE

\* C4: for a non-hidden path matching no negation and not excluded by the
\* directory-prefix rule, the result is True iff the full path matches a
\* plain pattern (False when no pattern applies).
Thm_C4_PlainPatternsLast ==
    (/\ ig_pc = "done"
     /\ ~ClaimHidden(ig_path)
     /\ ~ClaimNegationMatch(ig_path, ig_patterns)
     /\ ~(ClaimHasSlash(ig_path) /\ ClaimAncestorDirMatch(ig_path, ig_patterns)))
        => (ig_result = ClaimPlainMatch(ig_path, ig_patterns))

\* a path was ignored by a plain pattern alone, with a directory pattern
\* in the list that does not apply to it
Wit_C4_PlainMatchOnly ==
    /\ ig_pc = "done"
    /\ ~ClaimHidden(ig_path)
    /\ ~ClaimNegationMatch(ig_path, ig_patterns)
    /\ ~(ClaimHasSlash(ig_path) /\ ClaimAncestorDirMatch(ig_path, ig_patterns))
    /\ \E i \in DOMAIN ig_patterns : endswith(ig_patterns[i], <<"/">>)
    /\ ClaimPlainMatch(ig_path, ig_patterns)
    /\ ig_result = TRUE

(***************************************************************************)
(* Claims about get_extractor.                                             *)
(***************************************************************************)
\* the extractor map of the config, as the list of its items
ClaimExtractorItems == Get(ex_config, K_extractors, <<>>)

\* the positions of the map whose pattern matches the file name
ClaimMatching ==
    {i \in DOMAIN ClaimExtractorItems :
        fnmatch(ex_filename, ClaimExtractorItems[i][1])}

\* C5: get_extractor returns the command of the first pattern, in insertion
\* order, that matches the file name, and None when no pattern matches.
Thm_C5_FirstMatchWins ==
    ex_pc = "done" =>
        IF ClaimMatching = {} THEN ex_result = None
        ELSE \E i \in ClaimMatching :
                /\ \A j \in ClaimMatching : i <= j
                /\ ex_result = Some(ClaimExtractorItems[i][2])

\* two patterns match, the longer and more specific one second and with
\* another command, and the first one's command was returned
Wit_C5_FirstNotLongest ==
    /\ ex_pc = "done"
    /\ ex_filename = <<"a", ".", "p">>
    /\ Len(ClaimExtractorItems) >= 2
    /\ ClaimExtractorItems[1] = << <<"*">>, TEXT_EXTRACTOR >>
    /\ ClaimExtractorItems[2] = << <<"a", ".", "p">>, PDF_EXTRACTOR >>
    /\ ex_result = Some(TEXT_EXTRACTOR)

(***************************************************************************)
(* Claims about find_collections.                                          *)
(***************************************************************************)
\* the directories at or below start that contain .search/config.toml
ClaimCollectionsBelow(f, start) ==
    {d \in f.dirs :
        /\ AtOrBelow(d, start)
        /\ Exists(f, d \o <<SEARCH_DIR, CONFIG_NAME>>)}

\* C9: find_collections(start) returns exactly the directories at or below
\* start that contain .search/config.toml, each once.
Thm_C9_FindsExactlyTheCollections ==
    fd_pc = "done" =>
        /\ {fd_result[i] : i \in DOMAIN fd_result}
               = ClaimCollectionsBelow(fs, fd_start)
        /\ \A i, j \in DOMAIN fd_result : fd_result[i] = fd_result[j] => i = j

\* a collection at the start directory and one nested inside it were both
\* returned, and a sibling directory whose .search has no config was not
Wit_C9_NestedCollectionFound ==
    /\ fd_pc = "done"
    /\ fd_start = <<>>
    /\ Len(fd_result) = 2
    /\ {fd_result[i] : i \in DOMAIN fd_result} = {<<>>, << <<"n">> >>}
    /\ IsDir(fs, << <<"m">>, SEARCH_DIR >>)

(***************************************************************************)
(* Claims about filter_files.                                              *)
(***************************************************************************)
\* the files below dir and outside every .search directory whose basename
\* matches at least one include pattern and no exclude pattern
ClaimFilteredFiles(f, dir, config) ==
    {p \in DOMAIN f.files :
        /\ AtOrBelow(p, dir)
        /\ \A k \in DOMAIN p : p[k] # SEARCH_DIR
        /\ \E i \in DOMAIN include_patterns(config) :
               fnmatch(p[Len(p)], include_patterns(config)[i])
        /\ \A i \in DOMAIN exclude_patterns(config) :
               ~fnmatch(p[Len(p)], exclude_patterns(config)[i])}

\* C10: filter_files returns exactly the files, at any depth and outside
\* .search, whose basename matches an include pattern and no exclude
\* pattern, for every directory tree.
Cex_C10_FilterReturnsExactlyTheMatches ==
    fl_pc = "done" =>
        {fl_result[i] : i \in DOMAIN fl_result}
            = ClaimFilteredFiles(fs, fl_dir, fl_config)

(***************************************************************************)
(* Claims about the collection store: cmd_init and the config file.        *)
(***************************************************************************)
\* the last command was a cmd_init that returned 0
ClaimInitSucceeded == st_op = "init" /\ st_rc = 0

\* the directories and the file a collection has below dir, and what
\* load_config reads back from it
ClaimCollectionLaidOut(f, dir) ==
    /\ IsDir(f, Append(dir, SEARCH_DIR))
    /\ IsDir(f, dir \o <<SEARCH_DIR, CACHE_NAME>>)
    /\ IsDir(f, dir \o <<SEARCH_DIR, INDEX_NAME>>)
    /\ IsFile(f, ConfigPath(dir))
    /\ Has(load_config(f, dir), K_include)
    /\ Has(Get(load_config(f, dir), K_include, <<>>), K_patterns)
    /\ Has(load_config(f, dir), K_exclude)
    /\ Has(Get(load_config(f, dir), K_exclude, <<>>), K_patterns)
    /\ Has(load_config(f, dir), K_extractors)

\* C6 (amended): after cmd_init succeeds on an existing directory with a
\* non-empty name X, the directories .search, .search/cache and
\* .search/index and the file .search/config.toml exist, and load_config of
\* that directory yields a config whose name is X and which has
\* include.patterns, exclude.patterns and extractors.
Thm_C6_InitThenLoadNonEmptyName ==
    (ClaimInitSucceeded /\ st_args.name # None /\ st_args.name # Some(<<>>)) =>
        /\ ClaimCollectionLaidOut(fs, st_dir)
        /\ Has(load_config(fs, st_dir), K_name)
        /\ Get(load_config(fs, st_dir), K_name, <<>>) = st_args.name[1]

\* C6 as stated: after cmd_init succeeds with name X, whatever X is, the
\* collection is laid out and load_config yields a config whose name is X.
Cex_C6_InitThenLoadAnyName ==
    (ClaimInitSucceeded /\ st_args.name # None) =>
        /\ ClaimCollectionLaidOut(fs, st_dir)
        /\ Has(load_config(fs, st_dir), K_name)
        /\ Get(load_config(fs, st_dir), K_name, <<>>) = st_args.name[1]

\* a forced cmd_init named X has written the collection of /n/m
Wit_C6_ForcedInitNamedX ==
    /\ ClaimInitSucceeded
    /\ st_args.name = Some(<<"X">>)
    /\ st_args.force
    /\ st_dir = DirNM
    /\ Get(load_config(fs, DirNM), K_name, <<>>) = <<"X">>
    /\ IsDir(fs, DirNM \o <<SEARCH_DIR, INDEX_NAME>>)

\* the directories a collection can be in
ClaimCollectionDirs == {<<>>, DirN, DirNM, DirK}

\* what is at the place of dir's config file
ClaimConfigFile(f, dir) ==
    <<Exists(f, ConfigPath(dir)),
      IF IsFile(f, ConfigPath(dir)) THEN Some(f.files[ConfigPath(dir)]) ELSE None>>

\* the step is a run of one of the commands
ClaimCommandStep == st_ops' = st_ops + 1

\* C7: a collection's config file changes only through a cmd_init call that
\* succeeds: cmd_init on a directory whose config exists and without --force
\* returns 1 and leaves the config file and the directory unchanged, and no
\* scan, index or query ever writes or deletes a config file.
Thm_C7_ConfigChangesOnlyByInit ==
    [][ /\ \A d \in ClaimCollectionDirs :
              ClaimConfigFile(fs', d) # ClaimConfigFile(fs, d) =>
                  /\ ClaimCommandStep
                  /\ st_op' = "init" /\ st_rc' = 0 /\ st_dir' = d
        /\ ( /\ ClaimCommandStep /\ st_op' = "init"
             /\ Exists(fs, ConfigPath(st_dir')) /\ ~st_args'.force )
              => (st_rc' = 1 /\ fs' = fs)
        /\ (ClaimCommandStep /\ st_op' \in {"scan", "index", "query"})
              => \A d \in ClaimCollectionDirs :
                     ClaimConfigFile(fs', d) = ClaimConfigFile(fs, d)
      ]_vars

\* cmd_init without --force was refused on a collection whose index
\* directory a search index run has filled, and the config file is there
Wit_C7_RefusedInitAfterIndex ==
    /\ st_op = "init" /\ st_rc = 1
    /\ ~st_args.force
    /\ IsFile(fs, ConfigPath(st_dir))
    /\ IsFile(fs, MetaPath(st_dir))

\* the 'pattern=command' overrides of a list of --extract strings, in order,
\* as <<pattern, command>> pairs
RECURSIVE ClaimOverridePairs(_)
ClaimOverridePairs(extract) ==
    IF extract = <<>> THEN <<>>
    ELSE (IF FindEquals(Head(extract)) = 0 THEN <<>>
          ELSE << <<strip(SubSeq(Head(extract), 1, FindEquals(Head(extract)) - 1)),
                    strip(DropFirst(Head(extract), FindEquals(Head(extract))))>> >>)
         \o ClaimOverridePairs(Tail(extract))

\* the command the last override of pattern gives
ClaimLastOverride(pairs, pattern) ==
    pairs[CHOOSE i \in DOMAIN pairs :
              /\ pairs[i][1] = pattern
              /\ \A j \in DOMAIN pairs : pairs[j][1] = pattern => j <= i][2]

ClaimKeys(map) == {map[i][1] : i \in DOMAIN map}

\* the extractor map the config file of the initialised directory holds
ClaimWrittenExtractors == Get(load_config(fs, st_dir), K_extractors, <<>>)

\* C8: cmd_init with extractor overrides 'pattern=command' writes an
\* extractor map that holds every default extractor whose pattern is not
\* overridden, unchanged, plus each override: an override of a default
\* pattern replaces only that pattern's command, an override of a new
\* pattern adds one entry, and the map is never replaced wholesale.
Thm_C8_OverridesAreUpserts ==
    (ClaimInitSucceeded /\ st_args.extract # None /\ st_args.extract # Some(<<>>)) =>
        LET pairs == ClaimOverridePairs(st_args.extract[1])
            written == ClaimWrittenExtractors
        IN  /\ ClaimKeys(written) = ClaimKeys(DEFAULT_EXTRACTORS) \cup ClaimKeys(pairs)
            /\ Len(written) = Cardinality(ClaimKeys(written))
            /\ \A i \in DOMAIN DEFAULT_EXTRACTORS :
                   DEFAULT_EXTRACTORS[i][1] \notin ClaimKeys(pairs) =>
                       Get(written, DEFAULT_EXTRACTORS[i][1], <<>>)
                           = DEFAULT_EXTRACTORS[i][2]
            /\ \A p \in ClaimKeys(pairs) :
                   Get(written, p, <<>>) = ClaimLastOverride(pairs, p)

\* cmd_init has overridden the default pattern *.md and added the new
\* pattern *.j in one call
Wit_C8_ReplaceOneAddOne ==
    /\ ClaimInitSucceeded
    /\ st_args.extract = Some(<<OverrideMd, OverrideJ>>)
    /\ Len(ClaimWrittenExtractors) = Len(DEFAULT_EXTRACTORS) + 1
    /\ Get(ClaimWrittenExtractors, <<"*", ".", "m", "d">>, <<>>) = <<"c">>
    /\ Get(ClaimWrittenExtractors, <<"*", ".", "j">>, <<>>) = <<"x">>
    /\ Get(ClaimWrittenExtractors, <<"*", ".", "p", "d", "f">>, <<>>) = PDF_EXTRACTOR

(***************************************************************************)
(* Claims about file matching: filter_files and scan_directory.            *)
(***************************************************************************)
ClaimScanned == {sc_result[i] : i \in DOMAIN sc_result}

\* some pattern that is not a negation matches the name
ClaimExcludeMatches(name, patterns) ==
    \E i \in DOMAIN patterns :
        ~startswith(patterns[i], <<"!">>) /\ fnmatch(name, patterns[i])

\* some negation pattern matches the name
ClaimNegationMatches(name, patterns) ==
    \E i \in DOMAIN patterns :
        startswith(patterns[i], <<"!">>) /\ fnmatch(name, DropFirst(patterns[i], 1))

\* the name, judged on its own, is left out: it is hidden, or an exclude
\* pattern matches it and no negation pattern does
ClaimNameLeftOut(name, patterns) ==
    \/ startswith(name, <<".">>)
    \/ ClaimExcludeMatches(name, patterns) /\ ~ClaimNegationMatches(name, patterns)

\* the directory name with '/' matches a directory pattern
ClaimDirLeftOut(name, patterns) ==
    \E i \in DOMAIN patterns :
        /\ ~startswith(patterns[i], <<"!">>)
        /\ endswith(patterns[i], <<"/">>)
        /\ fnmatch(name \o <<"/">>, patterns[i])

\* no file filter_files returns has a basename an exclude pattern matches
ClaimFilterHonoursExcludes ==
    fl_pc = "done" =>
        \A i \in DOMAIN fl_result : \A j \in DOMAIN exclude_patterns(fl_config) :
            ~fnmatch(LastName(fl_result[i]), exclude_patterns(fl_config)[j])

\* without recursive no file scan_directory returns lies in a subdirectory
ClaimNonRecursiveIsFlat ==
    (sc_pc = "done" /\ ~sc_recursive) => \A p \in ClaimScanned : Len(p) = 1

\* C11 (amended): filter_files never returns a file whose name matches an
\* exclude pattern.  scan_directory never returns a file whose name is hidden
\* or matches an exclude pattern that no negation pattern overrides; without
\* recursive it returns no nested file; with recursive it returns every
\* nested text file for which the file's name and the name of every
\* directory on the way, each judged on its own, are not left out.
Thm_C11_MatchingByNameAndMode ==
    /\ ClaimFilterHonoursExcludes
    /\ ClaimNonRecursiveIsFlat
    /\ sc_pc = "done" =>
          /\ \A p \in ClaimScanned : ~ClaimNameLeftOut(LastName(p), sc_patterns)
          /\ sc_recursive =>
                \A p \in DOMAIN fs.files :
                    ( /\ Len(p) > 1
                      /\ fs.files[p] # BINARY
                      /\ \A k \in 1..Len(p) : ~ClaimNameLeftOut(p[k], sc_patterns)
                      /\ \A k \in 1..(Len(p) - 1) : ~ClaimDirLeftOut(p[k], sc_patterns) )
                    => p \in ClaimScanned

\* C11 as stated: file matching never returns a file whose name matches an
\* exclude pattern; in non-recursive mode no nested file is in the matched
\* set, and in recursive mode a nested file that passes the patterns is in it.
Cex_C11_ExcludedNeverNestedIffRecursive ==
    /\ ClaimFilterHonoursExcludes
    /\ ClaimNonRecursiveIsFlat
    /\ sc_pc = "done" =>
          /\ \A p \in ClaimScanned : ~ClaimExcludeMatches(LastName(p), sc_patterns)
          /\ sc_recursive =>
                \A p \in DOMAIN fs.files :
                    (Len(p) > 1 /\ ~should_ignore(PathText(p), sc_patterns))
                    => p \in ClaimScanned

\* a recursive scan with the patterns '*' and '!a' has returned the nested
\* file a/a, whose name '*' matches, and has left out the nested file a/c
Wit_C11_NegatedNestedFileReturned ==
    /\ sc_pc = "done" /\ sc_recursive
    /\ sc_patterns = << <<"*">>, <<"!", "a">> >>
    /\ << <<"a">>, <<"a">> >> \in ClaimScanned
    /\ IsFile(fs, << <<"a">>, <<"c">> >>)
    /\ << <<"a">>, <<"c">> >> \notin ClaimScanned

(***************************************************************************)
(* Claims about cmd_index: failures of single files and of collections.    *)
(***************************************************************************)
\* the last command was a cmd_index that found at least one collection
ClaimIndexRan == st_op = "index" /\ st_out.collections # <<>>

ClaimLog == st_out.log

\* how many entries of the log satisfy Test
ClaimCount(Test(_)) == Cardinality({i \in DOMAIN ClaimLog : Test(ClaimLog[i])})

ClaimExtractorExitedNonZero(e) == e.run.exit # 0

\* the files of one collection an extractor is run on, in order
RECURSIVE ClaimFilesWithExtractor(_, _, _)
ClaimFilesWithExtractor(collection, config, files) ==
    IF files = <<>> THEN <<>>
    ELSE (IF get_extractor(LastName(Head(files)), config) \in {None, Some(<<>>)}
          THEN <<>> ELSE << <<collection, Head(files)>> >>)
         \o ClaimFilesWithExtractor(collection, config, Tail(files))

\* the <<collection, file>> pairs a complete run over the collections works on
RECURSIVE ClaimWorkList(_, _)
ClaimWorkList(f, collections) ==
    IF collections = <<>> THEN <<>>
    ELSE ClaimFilesWithExtractor(Head(collections), load_config(f, Head(collections)),
             filter_files(f, Head(collections), load_config(f, Head(collections))))
         \o ClaimWorkList(f, Tail(collections))

ClaimWorked == [i \in DOMAIN ClaimLog |-> <<ClaimLog[i].collection, ClaimLog[i].file>>]

ClaimCachePath(e) ==
    Append(CacheDir(e.collection), CacheFileName(RelPath(e.file, e.collection)))

ClaimPrintedNoJson(e) == e.run.exit = 0 /\ e.run.json = None

\* C13: when the extractor exits with status 0 and its stdout is not valid
\* JSON, extract_metadata returns exactly {title: basename(file_path),
\* content: stdout}, and the file is not counted as failed for that reason:
\* it goes on to the cache and the index.
Thm_C13_NonJsonFallbackRecord ==
    ClaimIndexRan =>
        \A i \in DOMAIN ClaimLog :
            ClaimPrintedNoJson(ClaimLog[i]) =>
                /\ ClaimLog[i].metadata =
                       << <<K_title, LastName(ClaimLog[i].file)>>,
                          <<K_content, ClaimLog[i].run.stdout>> >>
                /\ ClaimLog[i].index # "none"
                /\ (ClaimLog[i].index = "ok" /\ ~st_args.no_cache
                      /\ \A j \in DOMAIN ClaimLog :
                             (j > i => ClaimCachePath(ClaimLog[j]) # ClaimCachePath(ClaimLog[i])))
                   => fs.files[ClaimCachePath(ClaimLog[i])] = ClaimLog[i].metadata

\* an extractor that printed nothing at all gave the record {title: a.md,
\* content: ''}, which was indexed; the run returned 0
Wit_C13_EmptyOutputStillIndexed ==
    /\ ClaimIndexRan /\ st_rc = 0
    /\ Len(ClaimLog) = 1
    /\ ClaimLog[1].run = [exit |-> 0, stdout |-> <<>>, json |-> None]
    /\ ClaimLog[1].metadata =
           << <<K_title, <<"a", ".", "m", "d">> >>, <<K_content, <<>> >> >>
    /\ ClaimLog[1].index = "ok"
    /\ st_out.failed = 0 /\ st_out.indexed = 1

RECURSIVE ClaimWithoutConfig(_, _)
ClaimWithoutConfig(f, collections) ==
    IF collections = <<>> THEN <<>>
    ELSE (IF load_config(f, Head(collections)) = <<>> THEN <<Head(collections)>>
          ELSE <<>>)
         \o ClaimWithoutConfig(f, Tail(collections))

\* the run ended with status 1 though no file was indexed and none failed
ClaimIndexFatal == st_rc = 1 /\ st_out.indexed = 0 /\ st_out.failed = 0

\* C15 (amended): in a cmd_index run over several collections, a collection
\* whose config is missing or unparseable is skipped and every other
\* collection is still worked through; the run is fatal (returns 1 with
\* nothing indexed and nothing failed) only when no collection is resolved
\* at all or when the index engine is missing, and a run whose collections
\* were all skipped returns 0.
Thm_C15_SkipCollectionNotBatch ==
    st_op = "index" =>
        /\ ~st_out.exited =>
              /\ st_out.skipped = ClaimWithoutConfig(fs, st_out.collections)
              /\ ClaimWorked = ClaimWorkList(fs, st_out.collections)
        /\ ClaimIndexFatal =>
              \/ st_out.collections = <<>>
              \/ st_out.exited /\ ~TANTIVY_AVAILABLE
        /\ st_out.collections = <<>> => ClaimIndexFatal /\ ClaimLog = <<>>
        /\ ( /\ st_out.collections # <<>>
             /\ ClaimWithoutConfig(fs, st_out.collections) = st_out.collections )
              => st_rc = 0

\* C15 as stated: collections without a usable config are skipped and the
\* others are indexed, and the run is fatal only when no valid target
\* collection exists at all.
Cex_C15_FatalOnlyWithoutValidTarget ==
    st_op = "index" =>
        /\ ~st_out.exited =>
              /\ st_out.skipped = ClaimWithoutConfig(fs, st_out.collections)
              /\ ClaimWorked = ClaimWorkList(fs, st_out.collections)
        /\ ClaimIndexFatal =>
              ClaimWithoutConfig(fs, st_out.collections) = st_out.collections

\* the run over /n/m and /n skipped /n/m, whose config is not TOML, and then
\* indexed both files of /n
Wit_C15_SkippedThenIndexed ==
    /\ st_op = "index" /\ st_rc = 0
    /\ st_out.collections = <<DirNM, DirN>>
    /\ st_out.skipped = <<DirNM>>
    /\ st_out.indexed = 2
    /\ Len(IndexDocs(fs, DirN)) = 2

(***************************************************************************)
(* Claims about perform_search.                                            *)
(***************************************************************************)
\* the results of all collections, as gathered before the sort
ClaimGathered == SearchGathered(sr_collections, sr_tag, sr_limit).results

\* how often x occurs in the list
ClaimOccurrences(list, x) == Cardinality({i \in DOMAIN list : list[i] = x})

\* the gathered results that the returned list does not hold
ClaimDropped ==
    {ClaimGathered[i] : i \in DOMAIN ClaimGathered} \cap
    {x \in {ClaimGathered[i] : i \in DOMAIN ClaimGathered} :
        ClaimOccurrences(sr_result, x) < ClaimOccurrences(ClaimGathered, x)}

\* C16: perform_search returns at most limit results, ordered by
\* non-increasing score across all queried collections, and every hit
\* dropped by the truncation has a score no higher than every returned hit.
Thm_C16_MergedSortedTruncated ==
    sr_pc = "done" =>
        /\ Len(sr_result) <= sr_limit
        /\ Len(sr_result) = IF Len(ClaimGathered) < sr_limit
                            THEN Len(ClaimGathered) ELSE sr_limit
        /\ \A i \in DOMAIN sr_result :
              ClaimOccurrences(sr_result, sr_result[i])
                  <= ClaimOccurrences(ClaimGathered, sr_result[i])
        /\ \A i, j \in DOMAIN sr_result :
              i < j => sr_result[i].score >= sr_result[j].score
        /\ \A x \in ClaimDropped : \A i \in DOMAIN sr_result :
              x.score <= sr_result[i].score

\* the hit with score 95 of the second collection comes before the hit with
\* score 80 of the first, and a third hit was dropped by the limit of 2
Wit_C16_HigherScoreOfLaterCollectionFirst ==
    /\ sr_pc = "done" /\ sr_limit = 2
    /\ Len(sr_result) = 2
    /\ sr_result[1].score = 95 /\ sr_result[1].collection_path = DirNM
    /\ sr_result[2].score = 80 /\ sr_result[2].collection_path = DirN
    /\ Len(ClaimGathered) = 3
    /\ ClaimDropped # {}

\* the tag list holds a tag equal to tag when case is ignored
ClaimHasTag(meta, tag) ==
    /\ meta.kind = "tags"
    /\ \E i \in DOMAIN meta.tags : lower(meta.tags[i]) = lower(tag)

\* the hits of one collection that pass a tag filter, up to the first hit
\* whose tags cannot be read as a list of strings
RECURSIVE ClaimTagged(_, _)
ClaimTagged(hits, tag) ==
    IF hits = <<>> THEN <<>>
    ELSE IF Head(hits).meta.kind = "nonlist" THEN <<>>
    ELSE (IF ClaimHasTag(Head(hits).meta, tag) THEN <<Head(hits)>> ELSE <<>>)
         \o ClaimTagged(Tail(hits), tag)

\* the hits the engine hands over for the collections whose index opens
RECURSIVE ClaimAllHits(_)
ClaimAllHits(collections) ==
    IF collections = <<>> THEN <<>>
    ELSE (IF Head(collections).index = "ok"
          THEN SearchHits(Head(collections), sr_limit) ELSE <<>>)
         \o ClaimAllHits(Tail(collections))

RECURSIVE ClaimAllTagged(_, _)
ClaimAllTagged(collections, tag) ==
    IF collections = <<>> THEN <<>>
    ELSE (IF Head(collections).index = "ok"
          THEN ClaimTagged(SearchHits(Head(collections), sr_limit), tag) ELSE <<>>)
         \o ClaimAllTagged(Tail(collections), tag)

\* the hits behind the gathered results
ClaimGatheredHits ==
    [i \in DOMAIN ClaimGathered |->
        [score |-> ClaimGathered[i].score, meta |-> ClaimGathered[i].tags]]

ClaimSearchErrors == {sr_err[i] : i \in DOMAIN sr_err}

\* the index directory or its meta.json is missing
ClaimIndexMissing(c) == c.index \in {"missing", "nometa"}

\* the hits perform_search should have gathered from the usable collections
ClaimHitsOfUsable ==
    IF sr_tag = None \/ sr_tag = Some(<<>>)
    THEN ClaimAllHits(sr_collections)
    ELSE ClaimAllTagged(sr_collections, sr_tag[1])

ClaimQueryWithoutIn ==
    st_op = "query" /\ st_args.in_dir = None /\ TANTIVY_AVAILABLE

\* the directories from dir upward to the root, dir first
ClaimUpward(dir) == [k \in 1..(Len(dir) + 1) |-> SubSeq(dir, 1, Len(dir) + 1 - k)]

\* the places on the upward walk that hold a config file
ClaimEnclosing(f, dir) ==
    {k \in DOMAIN ClaimUpward(dir) : Exists(f, ConfigPath(ClaimUpward(dir)[k]))}

\* the nearest enclosing collection alone, or, when there is none, all the
\* collections of the subtree of dir
ClaimQueryTargets(f, dir) ==
    IF ClaimEnclosing(f, dir) # {}
    THEN <<ClaimUpward(dir)[CHOOSE k \in ClaimEnclosing(f, dir) :
                               \A j \in ClaimEnclosing(f, dir) : k <= j]>>
    ELSE find_collections(f, dir)

\* C18: when cmd_query is run without --in, the collections searched are
\* exactly the nearest enclosing collection (the first directory, walking
\* upward from the current directory and starting with it, that holds a
\* config file), or, only when no directory on that walk is a collection,
\* all collections found in the current directory's subtree.
Cex_C18_NearestEnclosingOrSubtree ==
    ClaimQueryWithoutIn => st_out.collections = ClaimQueryTargets(fs, st_dir)

\* the config file of dir exists and is parseable
ClaimParseable(f, dir) ==
    IsFile(f, ConfigPath(dir)) /\ IsToml(f.files[ConfigPath(dir)])

\* the members of a list of directories that are valid collections
ClaimValidOnly(f, dirs) == SelectSeq(dirs, LAMBDA d : ClaimParseable(f, d))

\* the directories of the files that cmd_index worked on
ClaimIndexedDirs == {st_out.log[i].collection : i \in DOMAIN st_out.log}

\* C20: a directory is treated as a valid collection by scan, index and
\* query iff its configuration file exists and is parseable: scan lists
\* the directories of the subtree whose config file parses and no others,
\* and a directory whose config file exists but cannot be parsed is never
\* indexed and never searched.
Cex_C20_ValidIffConfigParses ==
    /\ (st_op = "scan" /\ st_rc = 0) =>
           [i \in DOMAIN st_out |-> st_out[i][2]]
               = ClaimValidOnly(fs, find_collections(fs, st_dir))
    /\ st_op = "index" =>
           \A d \in ClaimIndexedDirs : ClaimParseable(fs, d)
    /\ (st_op = "query" /\ st_rc = 0) =>
           \A i \in DOMAIN st_out.searched : ClaimParseable(fs, st_out.searched[i])

(***************************************************************************)
(* Claims about what one run of a command leaves for the next.             *)
(***************************************************************************)
\* the patterns under key in the config file that the last cmd_init wrote
ClaimWrittenPatterns(key) ==
    Get(Get(load_config(fs, st_dir), key, <<>>), K_patterns, <<>>)

\* C24: no mutable state crosses operations: in every sequence of cmd_init
\* calls in one process DEFAULT_CONFIG is never modified, and a call given
\* no include (exclude) patterns writes the built-in default include
\* (exclude) patterns, whatever patterns earlier calls were given.
Cex_C24_InitDependsOnlyOnItsArguments ==
    /\ DEFAULT_CONFIG = DefaultConfigLiteral
    /\ (st_op = "init" /\ st_rc = 0 /\ st_args.include = None)
           => ClaimWrittenPatterns(K_include) = DEFAULT_INCLUDE
    /\ (st_op = "init" /\ st_rc = 0 /\ st_args.exclude = None)
           => ClaimWrittenPatterns(K_exclude) = DEFAULT_EXCLUDE

\* the <<collection, file>> pairs of the matched files for which the last
\* cmd_index found no extractor
ClaimPairsWithoutExtractor(out) == {out.noext[i] : i \in DOMAIN out.noext}

\* the documents of a collection's index that were made from file
ClaimDocsOf(f, collection, file) ==
    SelectSeq(IndexDocs(f, collection),
              LAMBDA d : d[1] = RelPath(file, collection))

\* the cache file of a <<collection, file>> pair, when there is one
ClaimCacheFile(f, collection, file) ==
    LET path == Append(CacheDir(collection),
                       CacheFileName(RelPath(file, collection)))
    IN  IF IsFile(f, path) THEN Some(f.files[path]) ELSE None

\* C25: in cmd_index a matched file for which get_extractor finds no
\* extractor is skipped as a no-op: no command is run for it, no cache file
\* is written, no document is submitted to the index, and neither
\* indexed_count nor failed_count changes (the counters count only files an
\* extractor was run on).
Thm_C25_NoExtractorIsNoOp ==
    [][ (ClaimCommandStep /\ st_op' = "index" /\ st_out'.collections # <<>>) =>
          /\ \A pair \in ClaimPairsWithoutExtractor(st_out') :
                /\ \A i \in DOMAIN st_out'.log :
                      <<st_out'.log[i].collection, st_out'.log[i].file>> # pair
                /\ ClaimCacheFile(fs', pair[1], pair[2])
                       = ClaimCacheFile(fs, pair[1], pair[2])
                /\ ClaimDocsOf(fs', pair[1], pair[2])
                       = ClaimDocsOf(fs, pair[1], pair[2])
          /\ st_out'.indexed + st_out'.failed
                 = Cardinality({i \in DOMAIN st_out'.log :
                                   st_out'.log[i].index # "exit"})
      ]_vars

\* cmd_index ran on a collection whose only matched file has no extractor:
\* nothing was run, counted, cached or indexed, and the status is 0
Wit_C25_MatchedFileWithoutExtractor ==
    /\ ClaimIndexRan /\ st_rc = 0
    /\ ClaimPairsWithoutExtractor(st_out) # {}
    /\ \A pair \in ClaimPairsWithoutExtractor(st_out) :
          get_extractor(LastName(pair[2]), load_config(fs, pair[1])) = None
    /\ ClaimLog = <<>> /\ st_out.indexed = 0 /\ st_out.failed = 0
    /\ \A pair \in ClaimPairsWithoutExtractor(st_out) :
          /\ ClaimCacheFile(fs, pair[1], pair[2]) = None
          /\ ClaimDocsOf(fs, pair[1], pair[2]) = <<>>

\* the files a collection can hold a cache file for: those below it that are
\* not in its own .search directory
ClaimUserFiles(f, collection) ==
    {p \in DOMAIN f.files :
        /\ Len(p) > Len(collection)
        /\ SubSeq(p, 1, Len(collection)) = collection
        /\ p[Len(collection) + 1] # SEARCH_DIR}

\* the entries of the log in which the extractor gave metadata for the file
ClaimExtractions(out, collection, file) ==
    {i \in DOMAIN out.log :
        /\ out.log[i].collection = collection /\ out.log[i].file = file
        /\ out.log[i].metadata # <<>>}

\* the files in the cache directories
ClaimCacheFiles(f) ==
    {<<p, f.files[p]>> : p \in {q \in DOMAIN f.files :
        \E k \in 1..(Len(q) - 1) : q[k] = SEARCH_DIR /\ q[k + 1] = CACHE_NAME}}

\* C26: after an index run with caching enabled, the cache file of a matched
\* file holds exactly the metadata produced by the most recent run that
\* extracted that file successfully (this run's output when it extracted
\* the file, else what the file held before); with --no-cache no cache file
\* is written or changed.
Cex_C26_CacheHoldsLastExtraction ==
    [][ (ClaimCommandStep /\ st_op' = "index" /\ st_out'.collections # <<>>) =>
          IF st_args'.no_cache
          THEN ClaimCacheFiles(fs') = ClaimCacheFiles(fs)
          ELSE \A i \in DOMAIN st_out'.collections :
                  \A file \in ClaimUserFiles(fs, st_out'.collections[i]) :
                     LET c == st_out'.collections[i]
                         runs == ClaimExtractions(st_out', c, file)
                     IN  ClaimCacheFile(fs', c, file) =
                             IF runs = {} THEN ClaimCacheFile(fs, c, file)
                             ELSE Some(st_out'.log[CHOOSE k \in runs :
                                           \A j \in runs : j <= k].metadata)
      ]_vars

\* how many times the last cmd_index indexed a file of a collection
ClaimIndexedTimes(out, collection, file) ==
    Cardinality({i \in DOMAIN out.log :
                    /\ out.log[i].collection = collection
                    /\ out.log[i].file = file
                    /\ out.log[i].index = "ok"})

\* C28: index_file never deletes or replaces a document: in every step the
\* documents an index held are still there, in place, so their number never
\* decreases, and a cmd_index run adds to the documents with a file's path
\* exactly one for each successful index_file call on that file; so after k
\* runs that index the same file its index holds k documents with its path.
Thm_C28_IndexOnlyGrows ==
    [][ /\ \A d \in ClaimCollectionDirs :
              /\ Len(IndexDocs(fs', d)) >= Len(IndexDocs(fs, d))
              /\ SubSeq(IndexDocs(fs', d), 1, Len(IndexDocs(fs, d)))
                     = IndexDocs(fs, d)
        /\ (ClaimCommandStep /\ st_op' = "index" /\ st_out'.collections # <<>>) =>
              \A i \in DOMAIN st_out'.collections :
                 \A file \in ClaimUserFiles(fs, st_out'.collections[i]) :
                    Len(ClaimDocsOf(fs', st_out'.collections[i], file))
                        = Len(ClaimDocsOf(fs, st_out'.collections[i], file))
                          + ClaimIndexedTimes(st_out', st_out'.collections[i], file)
        /\ (ClaimCommandStep /\ st_op' # "index") =>
              \A d \in ClaimCollectionDirs : IndexDocs(fs', d) = IndexDocs(fs, d)
      ]_vars

\* the second of two index runs has indexed a file that the first had
\* indexed: the index holds two documents with that file's path
Wit_C28_TwoRunsTwoDocuments ==
    /\ ClaimIndexRan /\ st_ops = 2
    /\ \E i \in DOMAIN ClaimLog :
          /\ ClaimLog[i].index = "ok"
          /\ Len(ClaimDocsOf(fs, ClaimLog[i].collection, ClaimLog[i].file)) = 2

(***************************************************************************)
(* Claims about the order of the limit and the tag filter in               *)
(* perform_search.                                                         *)
(***************************************************************************)
\* the positions of a collection's matching documents that are within its
\* top `limit`
ClaimTopPlaces(c) == {k \in DOMAIN c.matches : k <= sr_limit}

\* how many of the returned results come from collection c and hit h
ClaimReturnedOf(c, h) ==
    Cardinality({i \in DOMAIN sr_result :
                    /\ sr_result[i].collection_path = c.dir
                    /\ sr_result[i].score = ScoreValue(h.score)
                    /\ sr_result[i].tags = h.meta})

\* C29: in perform_search the hit limit is applied to each collection's raw
\* hits before the tag filter: every result returned is one of the top
\* `limit` raw hits of its own collection and, under a tag filter, carries
\* the tag, and a document ranked below its collection's top `limit` raw
\* hits is never returned, tagged or not, even when fewer than `limit`
\* results are returned.
Thm_C29_LimitBeforeTagFilter ==
    sr_pc = "done" =>
        /\ \A i \in DOMAIN sr_result :
              \E j \in DOMAIN sr_collections :
                 /\ sr_collections[j].dir = sr_result[i].collection_path
                 /\ sr_collections[j].index = "ok"
                 /\ \E k \in ClaimTopPlaces(sr_collections[j]) :
                       /\ ScoreValue(sr_collections[j].matches[k].score)
                              = sr_result[i].score
                       /\ sr_collections[j].matches[k].meta = sr_result[i].tags
                 /\ Truthy(sr_tag) => ClaimHasTag(sr_result[i].tags, sr_tag[1])
        /\ \A j \in DOMAIN sr_collections :
              \A k \in DOMAIN sr_collections[j].matches :
                 ClaimReturnedOf(sr_collections[j], sr_collections[j].matches[k])
                     <= Cardinality({t \in ClaimTopPlaces(sr_collections[j]) :
                            sr_collections[j].matches[t]
                                = sr_collections[j].matches[k]})

\* with limit 1 and the filter 'P', the only collection with an index ranks
\* an untagged document first and a document tagged 'p' second: nothing is
\* returned
Wit_C29_TaggedBelowLimitNotReturned ==
    /\ sr_pc = "done" /\ sr_tag = Some(<<"P">>) /\ sr_limit = 1
    /\ sr_collections[1].index = "ok"
    /\ Len(sr_collections[1].matches) = 2
    /\ sr_collections[1].matches[1].meta.kind = "absent"
    /\ sr_collections[1].matches[2].meta.tags = << <<"p">> >>
    /\ sr_collections[2].index = "missing"
    /\ sr_result = <<>>

(***************************************************************************)
(* Claims about schedule add and schedule remove.                          *)
(***************************************************************************)
\* a subcommand has ended
ClaimTimerEnded(cmd) == tm_cmd = cmd /\ tm_pc = "done"

\* some unit file of the name existed when the subcommand started
ClaimUnitExisted ==
    \/ UnitFile(tm_args.name, SERVICE) \in tm_before
    \/ UnitFile(tm_args.name, TIMER) \in tm_before

\* the systemctl calls of the trace, in order
ClaimSystemctlCalls == SelectSeq(tm_trace, LAMBDA e : e.do = "systemctl")

\* what add_timer does when nothing stops it: the two files, then the calls
ClaimAddSequence(args) ==
    << WriteText(UnitFile(args.name, SERVICE)), WriteText(UnitFile(args.name, TIMER)),
       Systemctl(<<"daemon-reload">>) >>
    \o (IF args.no_enable THEN <<>> ELSE <<Systemctl(<<"enable", TimerUnit(args.name)>>)>>)
    \o (IF args.no_start THEN <<>> ELSE <<Systemctl(<<"start", TimerUnit(args.name)>>)>>)

\* a is the beginning of b
ClaimIsPrefix(a, b) == Len(a) <= Len(b) /\ SubSeq(b, 1, Len(a)) = a

\* C21 as stated: add_timer, when neither unit file exists or force is set,
\* first writes the .service and .timer files and then calls systemctl in
\* the order daemon-reload, enable <name>.timer (unless no_enable), start
\* <name>.timer (unless no_start): exactly three systemctl calls by
\* default; when a unit file exists and force is not set it exits with
\* status 1 before writing any file or calling systemctl.
Cex_C21_AddWritesThenThreeCalls ==
    ClaimTimerEnded("add") =>
        IF ClaimUnitExisted /\ ~tm_args.force
        THEN tm_rc = Some(1) /\ tm_trace = <<>> /\ tm_files = tm_before
        ELSE /\ tm_trace = ClaimAddSequence(tm_args)
             /\ (~tm_args.no_enable /\ ~tm_args.no_start)
                    => Len(ClaimSystemctlCalls) = 3

\* C21 (amended): add_timer, when neither unit file exists or force is set
\* and every -e entry holds an '=', first writes the .service and .timer
\* files and then calls systemctl in the order daemon-reload, enable
\* <name>.timer (unless no_enable), start <name>.timer (unless no_start),
\* up to the first call that fails: when it ends with status 0 it has
\* made all of them (three by default), and a failed call is its last act
\* and ends it with status 1, the files being written.  With an -e entry without '=', or
\* when a unit file exists and force is not set, it exits with status 1
\* before writing any file or calling systemctl.
Thm_C21_AddWritesThenCallsUntilFailure ==
    ClaimTimerEnded("add") =>
        IF ~tm_args.env_ok \/ (ClaimUnitExisted /\ ~tm_args.force)
        THEN tm_rc = Some(1) /\ tm_trace = <<>> /\ tm_files = tm_before
        ELSE /\ ClaimIsPrefix(tm_trace, ClaimAddSequence(tm_args))
             /\ Len(tm_trace) >= 3
             /\ tm_files = tm_before \cup {UnitFile(tm_args.name, SERVICE),
                                           UnitFile(tm_args.name, TIMER)}
             /\ tm_rc \in {Some(0), Some(1)}
             /\ tm_rc = Some(0) => tm_trace = ClaimAddSequence(tm_args)
             /\ tm_rc = Some(1) => tm_trace[Len(tm_trace)].do = "systemctl"
             /\ tm_trace # ClaimAddSequence(tm_args) => tm_rc = Some(1)
             /\ (tm_rc = Some(0) /\ ~tm_args.no_enable /\ ~tm_args.no_start)
                    => Len(ClaimSystemctlCalls) = 3

\* a forced add over existing unit files made its three calls and ended
\* with status 0
Wit_C21_ForcedAddThreeCalls ==
    /\ ClaimTimerEnded("add") /\ tm_rc = Some(0)
    /\ ClaimUnitExisted /\ tm_args.force
    /\ ~tm_args.no_enable /\ ~tm_args.no_start
    /\ ClaimSystemctlCalls = << Systemctl(<<"daemon-reload">>),
                                Systemctl(<<"enable", TimerUnit(tm_args.name)>>),
                                Systemctl(<<"start", TimerUnit(tm_args.name)>>) >>
    /\ tm_trace[1].do = "write" /\ tm_trace[2].do = "write"

\* the unit files of the name that existed when the subcommand started, in
\* the order remove_timer deletes them
ClaimRemoved ==
    (IF UnitFile(tm_args.name, TIMER) \in tm_before
     THEN <<Unlink(UnitFile(tm_args.name, TIMER))>> ELSE <<>>)
    \o (IF UnitFile(tm_args.name, SERVICE) \in tm_before
        THEN <<Unlink(UnitFile(tm_args.name, SERVICE))>> ELSE <<>>)

\* what the subcommand did to the unit files and through systemctl
ClaimUnitActs == SelectSeq(tm_trace, LAMBDA e : e.do # "journalctl")

\* C22: remove_timer, when at least one of the two unit files exists, calls
\* systemctl stop and then disable on <name>.timer (going on whatever their
\* exit status), then deletes every unit file that exists, then calls
\* daemon-reload, ending with neither unit file present; when neither unit
\* file exists it exits with status 1 without any systemctl call.
Thm_C22_RemoveStopsDeletesReloads ==
    ClaimTimerEnded("remove") =>
        IF ClaimUnitExisted
        THEN /\ ClaimUnitActs =
                   << Systemctl(<<"stop", TimerUnit(tm_args.name)>>),
                      Systemctl(<<"disable", TimerUnit(tm_args.name)>>) >>
                   \o ClaimRemoved
                   \o << Systemctl(<<"daemon-reload">>) >>
             /\ UnitFile(tm_args.name, SERVICE) \notin tm_files
             /\ UnitFile(tm_args.name, TIMER) \notin tm_files
             /\ tm_files = tm_before \ {UnitFile(tm_args.name, SERVICE),
                                        UnitFile(tm_args.name, TIMER)}
        ELSE tm_rc = Some(1) /\ tm_trace = <<>> /\ tm_files = tm_before

\* a remove that found only the .service file: stop, disable, one deletion,
\* daemon-reload, and the file is gone
Wit_C22_OnlyServiceFileRemoved ==
    /\ ClaimTimerEnded("remove") /\ tm_rc = Some(0)
    /\ UnitFile(tm_args.name, SERVICE) \in tm_before
    /\ UnitFile(tm_args.name, TIMER) \notin tm_before
    /\ Len(ClaimUnitActs) = 4
    /\ ClaimUnitActs[3] = Unlink(UnitFile(tm_args.name, SERVICE))
    /\ UnitFile(tm_args.name, SERVICE) \notin tm_files

(***************************************************************************)
(* Claims about fix_markdown_formatting.                                   *)
(***************************************************************************)
\* the text triggers the first, or else the second, hard-coded shortcut
ClaimShortcutList(text) ==
    Contains(text, NEEDLE_LIST_TITLE) /\ Contains(text, NEEDLE_ITEM_1)

ClaimShortcutMixed(text) ==
    Contains(text, NEEDLE_MIXED_LISTS) /\ Contains(text, NEEDLE_BULLET_1)

ClaimBlank(line) == \A i \in DOMAIN line : line[i] = " "

\* the places of the non-blank lines, in order
RECURSIVE ClaimNonBlankPlacesFrom(_, _)
ClaimNonBlankPlacesFrom(lines, i) ==
    IF i > Len(lines) THEN <<>>
    ELSE (IF ClaimBlank(lines[i]) THEN <<>> ELSE <<i>>)
         \o ClaimNonBlankPlacesFrom(lines, i + 1)

ClaimNonBlankPlaces(text) == ClaimNonBlankPlacesFrom(SplitLines(text), 1)

\* the non-blank lines of a text without their trailing blanks, in order
ClaimNonBlankLines(text) ==
    [k \in DOMAIN ClaimNonBlankPlaces(text) |->
        rstrip(SplitLines(text)[ClaimNonBlankPlaces(text)[k]])]

\* the marker type of a line: a bullet or a numbered list item, at any
\* indentation, or no list item
ClaimMarker(line) ==
    IF bullet_match(rstrip(line)) THEN "bullet"
    ELSE IF number_match(rstrip(line)) THEN "numbered"
    ELSE "none"

\* in the text no blank line stands between two list items of one type, and
\* a heading that a list item follows is separated from it by a blank line
ClaimTight(text) ==
    LET lines == SplitLines(text)
    IN  /\ \A i \in 1..(Len(lines) - 2) :
              ~ /\ ClaimMarker(lines[i]) # "none"
                /\ ClaimBlank(lines[i + 1])
                /\ ClaimMarker(lines[i + 2]) = ClaimMarker(lines[i])
        /\ \A i \in 1..(Len(lines) - 1) :
              ~(heading_match(lines[i]) /\ ClaimMarker(lines[i + 1]) # "none")

\* C23: for every markdown input, fix_markdown_formatting outputs no blank
\* line between two consecutive list items of the same marker type (bullet
\* '-' or numbered 'N.', at any indentation) that were separated by one
\* blank line in the input, and keeps a blank line between a heading and
\* the list that follows it.  The k-th non-blank line of the output is the
\* k-th non-blank line of the input; the fixed texts of the two shortcuts
\* are laid out the same way.
Thm_C23_ListItemsTightHeadingsSpaced ==
    md_pc = "done" =>
        IF ClaimShortcutList(md_text) \/ ClaimShortcutMixed(md_text)
        THEN ClaimTight(md_result)
        ELSE LET in == SplitLines(md_text)
                 from == ClaimNonBlankPlaces(md_text)
                 to == ClaimNonBlankPlaces(md_result)
             IN  /\ Len(to) = Len(from)
                 /\ \A k \in 1..(Len(from) - 1) :
                       /\ ( /\ ClaimMarker(in[from[k]]) # "none"
                            /\ ClaimMarker(in[from[k + 1]]) = ClaimMarker(in[from[k]])
                            /\ from[k + 1] = from[k] + 2 )
                             => to[k + 1] = to[k] + 1
                       /\ ( /\ heading_match(rstrip(in[from[k]]))
                            /\ ClaimMarker(in[from[k + 1]]) # "none" )
                             => to[k + 1] >= to[k] + 2

\* two bullet items, the second indented, with one blank line between them
\* in the input and none in the output
Wit_C23_BlankBetweenBulletsRemoved ==
    /\ md_pc = "done"
    /\ md_text = JoinLines(<< <<"-", " ", "a">>, <<>>, <<" ", "-", " ", "b">> >>)
    /\ md_result = JoinLines(<< <<"-", " ", "a">>, <<" ", "-", " ", "b">> >>)

\* C30: fix_markdown_formatting changes only blank lines and trailing
\* whitespace: the sequence of non-blank lines of the output equals the
\* sequence of right-stripped non-blank lines of the input, in the same
\* order, except for inputs that trigger one of the two hard-coded
\* shortcuts, for which the output is a fixed text that does not depend on
\* the rest of the input.
Thm_C30_OnlyBlankLinesAndTrailingBlanks ==
    md_pc = "done" =>
        IF ClaimShortcutList(md_text) THEN md_result = LIST_TITLE_TEXT
        ELSE IF ClaimShortcutMixed(md_text) THEN md_result = MIXED_LISTS_TEXT
        ELSE /\ ClaimNonBlankLines(md_result) = ClaimNonBlankLines(md_text)
             /\ \A i \in DOMAIN SplitLines(md_result) :
                   rstrip(SplitLines(md_result)[i]) = SplitLines(md_result)[i]

\* a text whose first line ends in a blank and whose second line is a blank:
\* both blanks are gone, the lines are kept
Wit_C30_TrailingBlanksStripped ==
    /\ md_pc = "done"
    /\ md_text = JoinLines(<< <<"-", " ", "a", " ">>, <<" ">>, <<"x">> >>)
    /\ md_result = JoinLines(<< <<"-", " ", "a">>, <<>>, <<"x">> >>)

(***************************************************************************)
(* Claims about sync_emails.                                               *)
(***************************************************************************)
\* the messages of the mailbox that the server hands out and that carry a
\* Message-ID
ClaimIdentified ==
    {i \in DOMAIN ml_mailbox :
        /\ ml_mailbox[i].ok
        /\ Get(message_from_bytes(ml_mailbox[i].raw), H_MESSAGE_ID, <<>>) # <<>>}

\* C27: sync_emails is idempotent: a second sync into the same output
\* directory against an unchanged mailbox writes no file for any message
\* that carries a Message-ID (each such message is counted as skipped), so
\* the set of .eml files and their contents are the same after the second
\* sync as after the first.
Cex_C27_SecondSyncChangesNothing ==
    ml_runs >= 2 =>
        /\ \A k \in DOMAIN ml_written : ml_written[k] \notin ClaimIdentified
        /\ ml_skipped = Cardinality(ClaimIdentified)
        /\ ml_files = ml_before

====
